---- MODULE Spec2Model ----
(***************************************************************************)
(* A model of the numeric core of edgefinder: the Odds value               *)
(* (models.py), the de-vig engine (devig.py), the Kelly sizer (kelly.py)   *)
(* the EV evaluator (ev_calculator.py), the arbitrage and middle detectors *)
(* (arbitrage.py) and the ledger of manual bets (bet_creator.py).          *)
(*                                                                         *)
(* Numbers.  Python floats are modelled as exact rationals <<n, d>> in     *)
(* lowest terms with d > 0, so +, -, *, / and the comparisons are those of *)
(* real arithmetic.  The two irrational operations of the code, math.sqrt  *)
(* and ** with a fractional exponent, are modelled in fixed point with     *)
(* PowScale steps per unit (sqrt is exact on perfect squares, as it is in  *)
(* IEEE arithmetic).  Float rounding error, overflow and underflow are     *)
(* outside the model.  A Python exception is modelled as a result whose    *)
(* err field names the exception.                                          *)
(*                                                                         *)
(* Each operation is a pure function of its arguments: a specification     *)
(* draws the arguments in its initial states (pc = "ready") and its action *)
(* applies the operation and stores what it returned (pc = "done").        *)
(* The ledger operations read and write bets_file, and their               *)
(* specification applies them one after another.                           *)
(***************************************************************************)
EXTENDS Integers, Sequences, FiniteSets

\* bets_file is the content of my_bets.json, the ledger of bet_creator.py.
VARIABLES pc, fn, args, ret, bets_file

vars == <<pc, fn, args, ret, bets_file>>

(***************************************************************************)
(* Rational arithmetic                                                     *)
(***************************************************************************)
Abs(x) == IF x < 0 THEN -x ELSE x

\* F applied to the value of e: an assignment v = e followed by the code F(v).
Bind(e, F(_)) == CHOOSE out \in {F(v) : v \in {e}} : TRUE

RECURSIVE Gcd(_, _)
Gcd(a, b) == IF b = 0 THEN a ELSE Gcd(b, a % b)

\* The rational n/d (d # 0) in lowest terms with a positive denominator.
Rat(n, d) ==
    LET s == IF d < 0 THEN -1 ELSE 1
        g == Gcd(Abs(n), Abs(d))
    IN  <<(s * n) \div g, (s * d) \div g>>

Zero == <<0, 1>>
One == <<1, 1>>
RInt(i) == <<i, 1>>

RAdd(x, y) ==
    LET g == Gcd(x[2], y[2])
        l == (x[2] \div g) * y[2]
    IN  Rat(x[1] * (l \div x[2]) + y[1] * (l \div y[2]), l)

RNeg(x) == <<-x[1], x[2]>>
RSub(x, y) == RAdd(x, RNeg(y))

RMul(x, y) ==
    LET g1 == Gcd(Abs(x[1]), y[2])
        g2 == Gcd(Abs(y[1]), x[2])
    IN  Rat((x[1] \div g1) * (y[1] \div g2), (x[2] \div g2) * (y[2] \div g1))

\* x / y for y # 0; every use is guarded by the caller, as a Python division by
\* zero raises ZeroDivisionError.
RDiv(x, y) == RMul(x, IF y[1] < 0 THEN <<-y[2], -y[1]>> ELSE <<y[2], y[1]>>)

RSign(x) == IF x[1] > 0 THEN 1 ELSE IF x[1] < 0 THEN -1 ELSE 0
RLt(x, y) == RSign(RSub(x, y)) < 0
RLe(x, y) == RSign(RSub(x, y)) <= 0
RGt(x, y) == RLt(y, x)
RGe(x, y) == RLe(y, x)
RMax(x, y) == IF RLt(x, y) THEN y ELSE x
RMin(x, y) == IF RLt(y, x) THEN y ELSE x
RAbs(x) == <<Abs(x[1]), x[2]>>

RECURSIVE RSumFrom(_, _)
RSumFrom(s, i) == IF i > Len(s) THEN Zero ELSE RAdd(s[i], RSumFrom(s, i + 1))

\* Python's sum() over a list of numbers.
RSum(s) == RSumFrom(s, 1)

\* The list <<F(1), ..., F(n)>>.
RECURSIVE SeqMap(_, _)
SeqMap(F(_), n) == IF n = 0 THEN <<>> ELSE Append(SeqMap(F, n - 1), F(n))

\* floor(n / d) for d > 0 and any integer n.
FloorDiv(n, d) == IF n >= 0 THEN n \div d ELSE -((-n + d - 1) \div d)

\* <<floor(r * base^k / d), the remainder>> for 0 <= r < d, by long division.
RECURSIVE LongDiv(_, _, _, _)
LongDiv(r, d, base, k) ==
    IF k = 0 THEN <<0, r>>
    ELSE LET h == LongDiv(r, d, base, k - 1)
         IN  <<h[1] * base + (h[2] * base) \div d, (h[2] * base) % d>>

\* round(x, 2): the nearest multiple of 1/100, a tie going to the even one.
Round2(x) ==
    LET d == x[2]
        q == FloorDiv(x[1], d)
        h == LongDiv(x[1] - q * d, d, 10, 2)
        cents == q * 100 + h[1]
        up == (2 * h[2] > d) \/ (2 * h[2] = d /\ cents % 2 = 1)
    IN  Rat(IF up THEN cents + 1 ELSE cents, 100)

\* round(x, 3): the nearest multiple of 1/1000, a tie going to the even one.
Round3(x) ==
    LET d == x[2]
        q == FloorDiv(x[1], d)
        h == LongDiv(x[1] - q * d, d, 10, 3)
        mills == q * 1000 + h[1]
        up == (2 * h[2] > d) \/ (2 * h[2] = d /\ mills % 2 = 1)
    IN  Rat(IF up THEN mills + 1 ELSE mills, 1000)

(***************************************************************************)
(* Fixed point for math.sqrt and **                                        *)
(***************************************************************************)
\* The fixed-point values have PowScale = ScaleRoot^2 steps per unit.
ScaleRoot == 100

PowScale == ScaleRoot * ScaleRoot

\* Fractional bits of an exponent k of **.
KBits == 10

RECURSIVE Pow2(_)
Pow2(n) == IF n = 0 THEN 1 ELSE 2 * Pow2(n - 1)

KScale == Pow2(KBits)

\* The fixed-point value nearest to the rational x >= 0.
ToFix(x) ==
    LET d == x[2]
        q == x[1] \div d
        h == LongDiv(x[1] % d, d, ScaleRoot, 2)
    IN  q * PowScale + h[1] + (IF 2 * h[2] >= d THEN 1 ELSE 0)

FromFix(f) == Rat(f, PowScale)

\* A float holds finitely many digits: x >= 0 rounded to the fixed-point grid,
\* where it enters a weighted sum of values of unrelated denominators.
Quant(x) == FromFix(ToFix(x))

\* Rationals of a denominator up to ExactDen are kept as they are in such a sum.
ExactDen == 1000

QuantLarge(x) == IF x[2] <= ExactDen THEN x ELSE Quant(x)

FixMul(f, g) == (2 * f * g + PowScale) \div (2 * PowScale)

\* floor(sqrt(n)) by bisection on lo..hi, lo * lo <= n < (hi + 1) * (hi + 1).
RECURSIVE ISqrtIn(_, _, _)
ISqrtIn(n, lo, hi) ==
    IF lo >= hi THEN lo
    ELSE LET mid == (lo + hi + 1) \div 2
         IN  IF mid * mid <= n THEN ISqrtIn(n, mid, hi) ELSE ISqrtIn(n, lo, mid - 1)

ISqrt(n) == ISqrtIn(n, 0, IF n < 46340 THEN n ELSE 46340)

\* The integer nearest to sqrt(n).
ISqrtNear(n) ==
    LET r == ISqrt(n)
    IN  IF n - r * r > r THEN r + 1 ELSE r

FixSqrt(f) == ISqrtNear(f * PowScale)

\* math.sqrt(x) for a rational x >= 0: exact on a perfect square, otherwise the
\* nearest fixed-point value.
RSqrt(x) ==
    LET rn == ISqrt(x[1])
        rd == ISqrt(x[2])
    IN  IF rn * rn = x[1] /\ rd * rd = x[2] THEN Rat(rn, rd)
        ELSE FromFix(FixSqrt(ToFix(x)))

\* <<f^(1/2), f^(1/4), ..., f^(1/2^n)>> in fixed point.
RECURSIVE FixRoots(_, _)
FixRoots(f, n) ==
    IF n = 0 THEN <<>>
    ELSE Bind(FixSqrt(f), LAMBDA r : <<r>> \o FixRoots(r, n - 1))

\* The product of the roots whose bit is set in frac, an exponent < 1 of
\* Len(roots) bits: roots[i] = f^(1/2^i) belongs to bit Len(roots) - i, and the
\* call for i reads that bit as the lowest one of frac.
RECURSIVE FixFracPow(_, _, _)
FixFracPow(roots, frac, i) ==
    IF i = 0 THEN PowScale
    ELSE LET rest == FixFracPow(roots, frac \div 2, i - 1)
         IN  IF frac % 2 = 1 THEN FixMul(roots[i], rest) ELSE rest

RECURSIVE FixIntPow(_, _)
FixIntPow(f, n) == IF n = 0 THEN PowScale ELSE FixMul(f, FixIntPow(f, n - 1))

\* p ** k in fixed point, for p >= 0 given with its roots and k = m / KScale > 0.
FixPow(f, roots, m) ==
    IF f = 0 THEN 0
    ELSE FixMul(FixIntPow(f, m \div KScale), FixFracPow(roots, m % KScale, Len(roots)))

(***************************************************************************)
(* Results of a call: a returned value, or a raised exception              *)
(***************************************************************************)
Return(v) == [err |-> "none", val |-> v]
Raise(kind, msg) == [err |-> kind, val |-> msg]
DivisionByZero == Raise("ZeroDivisionError", <<"division by zero">>)

(***************************************************************************)
(* models.py: Odds                                                         *)
(***************************************************************************)
\* Mutant: the price 0 taken with the positive prices.
american_to_decimal_zero_positive(american) ==
    IF american >= 0 THEN Return(RAdd(Rat(american, 100), One))
    ELSE Return(RAdd(Rat(100, Abs(american)), One))

\* Mutant: the two conversion rules exchanged.
american_to_decimal_swapped(american) ==
    IF american < 0 THEN Return(RAdd(Rat(Abs(american), 100), One))
    ELSE IF american = 0 THEN DivisionByZero
    ELSE Return(RAdd(Rat(100, american), One))

_american_to_decimal(american) ==
    IF american > 0 THEN Return(RAdd(Rat(american, 100), One))
    ELSE IF Abs(american) = 0 THEN DivisionByZero
    ELSE Return(RAdd(Rat(100, Abs(american)), One))

\* Odds(bookmaker, american): the dataclass constructor followed by __post_init__.
Odds(bookmaker, american) ==
    LET dec == _american_to_decimal(american)
    IN  IF dec.err # "none" THEN dec
        ELSE IF dec.val = Zero THEN DivisionByZero
        ELSE Return([bookmaker |-> bookmaker,
                     american |-> american,
                     decimal |-> dec.val,
                     implied_prob |-> RDiv(One, dec.val)])

(***************************************************************************)
(* devig.py                                                                *)
(***************************************************************************)
\* [p / total for p in probs]: the division raises when total is 0, unless the
\* list is empty and nothing is divided.
Normalize(probs, total) ==
    IF Len(probs) > 0 /\ total = Zero THEN DivisionByZero
    ELSE Return([i \in 1..Len(probs) |-> RDiv(probs[i], total)])

multiplicative_devig(implied_probs) ==
    Bind(RSum(implied_probs), LAMBDA total :
        IF total = Zero THEN Return(implied_probs)
        ELSE Normalize(implied_probs, total))

\* [max(0.001, p - vig_per_side) for p in implied_probs]
AdditiveFloor(implied_probs, vig_per_side) ==
    [i \in 1..Len(implied_probs) |->
        RMax(Rat(1, 1000), RSub(implied_probs[i], vig_per_side))]

\* Mutant: the floored probabilities are returned without renormalising.
additive_devig_unnormalised(implied_probs) ==
    IF Len(implied_probs) = 0 THEN Return(implied_probs)
    ELSE
    Bind(RDiv(RSub(RSum(implied_probs), One), RInt(Len(implied_probs))), LAMBDA vig_per_side :
        Return(AdditiveFloor(implied_probs, vig_per_side)))

\* Mutant: the floor is 0.01.
additive_devig_floor_percent(implied_probs) ==
    IF Len(implied_probs) = 0 THEN Return(implied_probs)
    ELSE
    Bind(RDiv(RSub(RSum(implied_probs), One), RInt(Len(implied_probs))), LAMBDA vig_per_side :
    Bind([i \in 1..Len(implied_probs) |->
             RMax(Rat(1, 100), RSub(implied_probs[i], vig_per_side))], LAMBDA fair_probs :
        Normalize(fair_probs, RSum(fair_probs))))

additive_devig(implied_probs) ==
    IF Len(implied_probs) = 0 THEN Return(implied_probs)
    ELSE
    Bind(RSum(implied_probs), LAMBDA total :
    Bind(RDiv(RSub(total, One), RInt(Len(implied_probs))), LAMBDA vig_per_side :
    Bind(AdditiveFloor(implied_probs, vig_per_side), LAMBDA fair_probs :
        Normalize(fair_probs, RSum(fair_probs)))))

\* Iterations of the binary search for the exponent.
PowerIterations == 50

\* sum(p ** k for p in probs) in fixed point, k = m / KScale.
RECURSIVE sum_of_powers(_, _, _, _)
sum_of_powers(fix, roots, m, i) ==
    IF i > Len(fix) THEN 0
    ELSE FixPow(fix[i], roots[i], m) + sum_of_powers(fix, roots, m, i + 1)

\* The binary search of power_devig: <<low, high>> after `left` more iterations.
\* Once mid = low the remaining iterations repeat this one, so its outcome is the
\* final one.
RECURSIVE PowerSearch(_, _, _, _, _)
PowerSearch(fix, roots, low, high, left) ==
    IF left = 0 \/ low = high THEN <<low, high>>
    ELSE
    Bind((low + high) \div 2, LAMBDA mid :
        IF sum_of_powers(fix, roots, mid, 1) < PowScale
        THEN IF mid = low THEN <<low, mid>>
             ELSE PowerSearch(fix, roots, low, mid, left - 1)
        ELSE IF mid = low THEN <<mid, high>>
             ELSE PowerSearch(fix, roots, mid, high, left - 1))

\* [p ** k for p in implied_probs], normalised; k = m / KScale.
PowerNormalized(fix, roots, m) ==
    Bind([i \in 1..Len(fix) |-> FixPow(fix[i], roots[i], m)], LAMBDA fair_probs :
    Bind(sum_of_powers(fix, roots, m, 1), LAMBDA total :
        IF total = 0 THEN DivisionByZero
        ELSE Return([i \in 1..Len(fix) |-> Rat(fair_probs[i], total)])))

power_devig(implied_probs) ==
    IF Len(implied_probs) < 2 THEN Return(implied_probs)
    ELSE
    Bind(SeqMap(LAMBDA i : ToFix(implied_probs[i]), Len(implied_probs)), LAMBDA fix :
    Bind(SeqMap(LAMBDA i : FixRoots(fix[i], KBits), Len(implied_probs)), LAMBDA roots :
    Bind(PowerSearch(fix, roots, KScale \div 2, 2 * KScale, PowerIterations), LAMBDA lh :
        PowerNormalized(fix, roots, (lh[1] + lh[2]) \div 2))))

\* Mutant: the other root of the quadratic.
ShinZ_other_root(p1, p2, total, discriminant) ==
    Bind(RSub(total, One), LAMBDA t1 :
        RDiv(RAdd(t1, RSqrt(discriminant)), RMul(RInt(2), t1)))

\* Shin's z for a two-way market of sum total # 1, before it is bounded.
ShinZ(p1, p2, total, discriminant) ==
    Bind(RSub(total, One), LAMBDA t1 :
        RDiv(RSub(t1, RSqrt(discriminant)), RMul(RInt(2), t1)))

\* fair_p of the Shin formula for one implied probability p.
ShinFair(p, z, total) ==
    Bind(RSub(One, z), LAMBDA omz :
    Bind(RAdd(RMul(z, z), RDiv(RMul(RMul(RInt(4), omz), RMul(p, p)), total)), LAMBDA inner :
        IF omz # Zero THEN RDiv(RSub(RSqrt(inner), z), RMul(RInt(2), omz))
        ELSE p))

\* (total - 1) ** 2 + 4 * (total - 1) * p1 * p2 / total, total # 0.
ShinDiscriminant(p1, p2, total) ==
    Bind(RSub(total, One), LAMBDA t1 :
        RAdd(RMul(t1, t1), RDiv(RMul(RMul(RMul(RInt(4), t1), p1), p2), total)))

\* Mutant: no fall back to multiplicative when z is 0 or the total is 1.
shin_devig_no_z_fallback(implied_probs) ==
    IF Len(implied_probs) # 2 THEN multiplicative_devig(implied_probs)
    ELSE
    Bind(RAdd(implied_probs[1], implied_probs[2]), LAMBDA total :
        IF total = Zero THEN DivisionByZero
        ELSE
        Bind(ShinDiscriminant(implied_probs[1], implied_probs[2], total), LAMBDA discriminant :
            IF RLt(discriminant, Zero) THEN multiplicative_devig(implied_probs)
            ELSE
            Bind(IF total # One
                 THEN ShinZ(implied_probs[1], implied_probs[2], total, discriminant)
                 ELSE Zero, LAMBDA zraw :
            Bind(RMax(Zero, RMin(zraw, Rat(1, 2))), LAMBDA z :
            Bind([i \in 1..2 |-> RMax(Rat(1, 1000), ShinFair(implied_probs[i], z, total))],
                 LAMBDA fair_probs : Normalize(fair_probs, RSum(fair_probs)))))))

shin_devig(implied_probs) ==
    IF Len(implied_probs) # 2 THEN multiplicative_devig(implied_probs)
    ELSE
    Bind(RAdd(implied_probs[1], implied_probs[2]), LAMBDA total :
        IF total = Zero THEN DivisionByZero
        ELSE
        Bind(ShinDiscriminant(implied_probs[1], implied_probs[2], total), LAMBDA discriminant :
            IF RLt(discriminant, Zero) THEN multiplicative_devig(implied_probs)
            ELSE
            Bind(IF total # One
                 THEN ShinZ(implied_probs[1], implied_probs[2], total, discriminant)
                 ELSE Zero, LAMBDA zraw :
            Bind(RMax(Zero, RMin(zraw, Rat(1, 2))), LAMBDA z :
                IF z = Zero \/ total = One THEN multiplicative_devig(implied_probs)
                ELSE
                Bind([i \in 1..2 |-> RMax(Rat(1, 1000), ShinFair(implied_probs[i], z, total))],
                     LAMBDA fair_probs : Normalize(fair_probs, RSum(fair_probs)))))))

\* The default weights of weighted_devig: mult, add, power, shin, weighted(ignored).
DefaultWeights(n) ==
    IF n = 2 THEN <<Rat(2, 10), Rat(1, 10), Rat(3, 10), Rat(4, 10), Zero>>
    ELSE <<Rat(3, 10), Rat(1, 10), Rat(5, 10), Rat(1, 10), Zero>>

\* The first exception among the results, in the order the methods are called.
RECURSIVE FirstError(_, _)
FirstError(results, j) ==
    IF j > Len(results) THEN 0
    ELSE IF results[j].err # "none" THEN j
    ELSE FirstError(results, j + 1)

\* The weighted average of the methods' results, per outcome.
WeightedAverage(results, weights, n) ==
    Bind(RSum(SubSeq(weights, 1, 4)), LAMBDA total_weight :
        [i \in 1..n |->
            RSum([j \in 1..4 |->
                    RDiv(RMul(Quant(results[j].val[i]), weights[j]), total_weight)])])

weighted_devig(implied_probs) ==
    Bind(<<multiplicative_devig(implied_probs),
           additive_devig(implied_probs),
           power_devig(implied_probs),
           shin_devig(implied_probs)>>, LAMBDA results :
    Bind(FirstError(results, 1), LAMBDA bad :
        IF bad # 0 THEN results[bad]
        ELSE
        Bind(WeightedAverage(results, DefaultWeights(Len(implied_probs)), Len(implied_probs)),
             LAMBDA fair_probs : Normalize(fair_probs, RSum(fair_probs)))))

\* The keys of DEVIG_METHODS, in the order of the dict.
DEVIG_METHODS == <<"multiplicative", "additive", "power", "shin", "weighted">>

DevigMethodNames == {DEVIG_METHODS[i] : i \in 1..Len(DEVIG_METHODS)}

\* DEVIG_METHODS[method](implied_probs)
devig_func(method, implied_probs) ==
    CASE method = "multiplicative" -> multiplicative_devig(implied_probs)
      [] method = "additive" -> additive_devig(implied_probs)
      [] method = "power" -> power_devig(implied_probs)
      [] method = "shin" -> shin_devig(implied_probs)
      [] method = "weighted" -> weighted_devig(implied_probs)

\* sum(implied_probs) - 1 when the sum exceeds 1, else 0.
VigRemoved(implied_probs) ==
    Bind(RSum(implied_probs), LAMBDA original_total :
        IF RGt(original_total, One) THEN RSub(original_total, One) ELSE Zero)

\* Mutant: an unrecognised method name falls back to the default method.
devig_default_weighted(implied_probs, method) ==
    Bind(IF method \in DevigMethodNames THEN method ELSE "weighted", LAMBDA used :
    Bind(devig_func(used, implied_probs), LAMBDA r :
        IF r.err # "none" THEN r
        ELSE Return([fair_probs |-> r.val,
                     method |-> used,
                     original_implied |-> implied_probs,
                     vig_removed |-> VigRemoved(implied_probs)])))

devig(implied_probs, method) ==
    IF method \notin DevigMethodNames
    THEN Raise("ValueError", <<"Unknown de-vig method: ", method, ". Available: ", DEVIG_METHODS>>)
    ELSE
    Bind(devig_func(method, implied_probs), LAMBDA r :
        IF r.err # "none" THEN r
        ELSE Return([fair_probs |-> r.val,
                     method |-> method,
                     original_implied |-> implied_probs,
                     vig_removed |-> VigRemoved(implied_probs)]))

(***************************************************************************)
(* kelly.py                                                                *)
(***************************************************************************)
KellyResult(full_kelly, recommended_fraction, recommended_stake, edge, odds_decimal) ==
    [full_kelly |-> full_kelly,
     recommended_fraction |-> recommended_fraction,
     recommended_stake |-> recommended_stake,
     edge |-> edge,
     odds_decimal |-> odds_decimal]

\* Mutant: the per-bet cap is not applied.
kelly_criterion_uncapped(win_prob, decimal_odds, bankroll, fraction, max_bet_percent) ==
    IF RLe(win_prob, Zero) \/ RGe(win_prob, One)
    THEN KellyResult(Zero, Zero, Zero, Zero, decimal_odds)
    ELSE
    LET b == RSub(decimal_odds, One)
        raw == RSub(RMul(b, win_prob), RSub(One, win_prob))
        full_kelly == IF RGt(b, Zero) THEN RDiv(raw, b) ELSE Zero
        fractional_kelly == RMul(full_kelly, fraction)
    IN  IF RLe(full_kelly, Zero)
        THEN KellyResult(Zero, Zero, Zero, raw, decimal_odds)
        ELSE KellyResult(full_kelly, fractional_kelly,
                         Round2(RMul(bankroll, fractional_kelly)), raw, decimal_odds)

\* Mutant: the degenerate probabilities 0 and 1 pass the first guard.
kelly_criterion_open_guard(win_prob, decimal_odds, bankroll, fraction, max_bet_percent) ==
    LET b == RSub(decimal_odds, One)
        raw == RSub(RMul(b, win_prob), RSub(One, win_prob))
        full_kelly == IF RGt(b, Zero) THEN RDiv(raw, b) ELSE Zero
        capped_fraction == RMin(RMul(full_kelly, fraction), max_bet_percent)
    IN  IF RLt(win_prob, Zero) \/ RGt(win_prob, One)
        THEN KellyResult(Zero, Zero, Zero, Zero, decimal_odds)
        ELSE IF RLe(full_kelly, Zero)
        THEN KellyResult(Zero, Zero, Zero, raw, decimal_odds)
        ELSE KellyResult(full_kelly, capped_fraction,
                         Round2(RMul(bankroll, capped_fraction)), raw, decimal_odds)

\* Mutant: the no-edge branch reports an edge of 0, as the first guard does.
kelly_criterion_zero_edge(win_prob, decimal_odds, bankroll, fraction, max_bet_percent) ==
    LET b == RSub(decimal_odds, One)
        raw == RSub(RMul(b, win_prob), RSub(One, win_prob))
        full_kelly == IF RGt(b, Zero) THEN RDiv(raw, b) ELSE Zero
        capped_fraction == RMin(RMul(full_kelly, fraction), max_bet_percent)
    IN  IF RLe(win_prob, Zero) \/ RGe(win_prob, One) \/ RLe(full_kelly, Zero)
        THEN KellyResult(Zero, Zero, Zero, Zero, decimal_odds)
        ELSE KellyResult(full_kelly, capped_fraction,
                         Round2(RMul(bankroll, capped_fraction)), raw, decimal_odds)

kelly_criterion(win_prob, decimal_odds, bankroll, fraction, max_bet_percent) ==
    IF RLe(win_prob, Zero) \/ RGe(win_prob, One)
    THEN KellyResult(Zero, Zero, Zero, Zero, decimal_odds)
    ELSE
    Bind(RSub(decimal_odds, One), LAMBDA b :
    Bind(RSub(RMul(b, win_prob), RSub(One, win_prob)), LAMBDA raw :
    Bind(IF RGt(b, Zero) THEN RDiv(raw, b) ELSE Zero, LAMBDA full_kelly :
        IF RLe(full_kelly, Zero)
        THEN KellyResult(Zero, Zero, Zero, raw, decimal_odds)
        ELSE
        Bind(RMin(RMul(full_kelly, fraction), max_bet_percent), LAMBDA capped_fraction :
            KellyResult(full_kelly, capped_fraction,
                        Round2(RMul(bankroll, capped_fraction)), raw, decimal_odds)))))

\* The default of kelly_criterion's max_bet_percent, 0.05.
DefaultMaxBetPercent == Rat(5, 100)

\* Mutant: bets are kept in input order while their fractions fit under the cap,
\* and the rest are dropped.
scale_exposure_by_priority(kelly_results, bankroll, max_total_exposure) ==
    LET n == Len(kelly_results)
        used(i) == RSum([j \in 1..i |-> kelly_results[j].recommended_fraction])
    IN  Return([i \in 1..n |->
                  IF RLe(used(i), max_total_exposure)
                  THEN kelly_results[i].recommended_stake
                  ELSE Zero])

\* Mutant: the stakes are returned as they are, whatever their total.
scale_exposure_unscaled(kelly_results, bankroll, max_total_exposure) ==
    Return([i \in 1..Len(kelly_results) |-> kelly_results[i].recommended_stake])

scale_exposure(kelly_results, bankroll, max_total_exposure) ==
    LET n == Len(kelly_results)
        total_fraction == RSum([i \in 1..n |-> kelly_results[i].recommended_fraction])
        scale_factor == RDiv(max_total_exposure, total_fraction)
    IN  IF RLe(total_fraction, max_total_exposure)
        THEN Return([i \in 1..n |-> kelly_results[i].recommended_stake])
        ELSE IF total_fraction = Zero THEN DivisionByZero
        ELSE Return([i \in 1..n |->
                       Round2(RMul(kelly_results[i].recommended_stake, scale_factor))])

\* Mutant: every one of the n bets counts as correlated, the bet itself included.
kelly_with_correlation_counts_self(win_prob, decimal_odds, bankroll, correlation, num_correlated_bets, fraction) ==
    Bind(RAdd(One, RMul(correlation, RInt(num_correlated_bets))), LAMBDA denominator :
        IF denominator = Zero THEN DivisionByZero
        ELSE Return(kelly_criterion(win_prob, decimal_odds, bankroll,
                                    RMul(fraction, RDiv(One, denominator)),
                                    DefaultMaxBetPercent)))

kelly_with_correlation(win_prob, decimal_odds, bankroll, correlation, num_correlated_bets, fraction) ==
    Bind(RAdd(One, RMul(correlation, RInt(num_correlated_bets - 1))), LAMBDA denominator :
        IF denominator = Zero THEN DivisionByZero
        ELSE
        Bind(RDiv(One, denominator), LAMBDA correlation_factor :
        Bind(RMul(fraction, correlation_factor), LAMBDA adjusted_fraction :
            Return(kelly_criterion(win_prob, decimal_odds, bankroll, adjusted_fraction,
                                   DefaultMaxBetPercent)))))

(***************************************************************************)
(* ev_calculator.py: calculate_ev                                          *)
(***************************************************************************)
\* Mutant: decimal odds of exactly 1 pass the guard.
calculate_ev_open_guard(fair_prob, decimal_odds) ==
    IF RLe(fair_prob, Zero) \/ RLt(decimal_odds, One) THEN Zero
    ELSE RMul(RSub(RMul(fair_prob, decimal_odds), One), RInt(100))

calculate_ev(fair_prob, decimal_odds) ==
    IF RLe(fair_prob, Zero) \/ RLe(decimal_odds, One) THEN Zero
    ELSE LET ev == RSub(RMul(fair_prob, decimal_odds), One)
         IN  RMul(ev, RInt(100))

(***************************************************************************)
(* config.py: the sharpness weights                                        *)
(***************************************************************************)
\* str.lower() on the bookmaker names of the model.
Lower(name) ==
    CASE name = "FanDuel" -> "fanduel"
      [] name = "Pinnacle" -> "pinnacle"
      [] OTHER -> name

book_weights ==
    [pinnacle |-> Rat(100, 100), circa |-> Rat(95, 100), bookmaker |-> Rat(90, 100),
     betcris |-> Rat(85, 100), bovada |-> Rat(70, 100), betonlineag |-> Rat(70, 100),
     draftkings |-> Rat(60, 100), fanduel |-> Rat(60, 100), betmgm |-> Rat(55, 100),
     pointsbetus |-> Rat(50, 100), caesars |-> Rat(50, 100), wynnbet |-> Rat(45, 100),
     superbook |-> Rat(80, 100), betrivers |-> Rat(50, 100), unibet |-> Rat(50, 100)]

get_book_weight(bookmaker) ==
    IF Lower(bookmaker) \in DOMAIN book_weights THEN book_weights[Lower(bookmaker)]
    ELSE Rat(5, 10)

(***************************************************************************)
(* models.py: Market and Bet.  An Optional value is <<>> (None) or <<v>>.  *)
(***************************************************************************)
Market(sport, event, market_type, selection, point, odds_list) ==
    [sport |-> sport, event |-> event, market_type |-> market_type,
     selection |-> selection, point |-> point, odds_list |-> odds_list]

\* The index of the first maximum of decimal among odds_list[i..], given the best
\* index so far: max(odds_list, key=lambda o: o.decimal).
RECURSIVE FirstMax(_, _, _)
FirstMax(odds_list, i, best) ==
    IF i > Len(odds_list) THEN best
    ELSE IF RGt(odds_list[i].decimal, odds_list[best].decimal)
    THEN FirstMax(odds_list, i + 1, i)
    ELSE FirstMax(odds_list, i + 1, best)

\* The index of the last maximum of decimal among odds_list[i..].
RECURSIVE LastMax(_, _, _)
LastMax(odds_list, i, best) ==
    IF i > Len(odds_list) THEN best
    ELSE IF RGe(odds_list[i].decimal, odds_list[best].decimal)
    THEN LastMax(odds_list, i + 1, i)
    ELSE LastMax(odds_list, i + 1, best)

\* Mutant: among equal maxima the last one is returned.
best_odds_last_max(market) ==
    IF Len(market.odds_list) = 0 THEN <<>>
    ELSE <<market.odds_list[LastMax(market.odds_list, 2, 1)]>>

best_odds(market) ==
    IF Len(market.odds_list) = 0 THEN <<>>
    ELSE <<market.odds_list[FirstMax(market.odds_list, 2, 1)]>>

RECURSIVE FirstByBook(_, _, _)
FirstByBook(odds_list, bookmaker, i) ==
    IF i > Len(odds_list) THEN <<>>
    ELSE IF Lower(odds_list[i].bookmaker) = Lower(bookmaker) THEN <<odds_list[i]>>
    ELSE FirstByBook(odds_list, bookmaker, i + 1)

get_odds_by_book(market, bookmaker) == FirstByBook(market.odds_list, bookmaker, 1)

Bet(market, best, fair_prob, ev_percent, kelly_fraction, recommended_stake) ==
    [market |-> market, best_odds |-> best, fair_prob |-> fair_prob,
     ev_percent |-> ev_percent, kelly_fraction |-> kelly_fraction,
     recommended_stake |-> recommended_stake]

(***************************************************************************)
(* ev_calculator.py: the fair-probability aggregator and find_ev_bets      *)
(***************************************************************************)
\* The loop of _paired_fair_probability from quote i on: <<weighted_prob,
\* total_weight>>, or the exception devig raised.
\* Mutant: a quote whose bookmaker is missing from the opposing market is not
\* skipped but counted with its implied probability.
RECURSIVE PairedLoop_unmatched_counted(_, _, _, _, _, _)
PairedLoop_unmatched_counted(market, opposing_market, method, i, weighted_prob, total_weight) ==
    IF i > Len(market.odds_list) THEN Return(<<weighted_prob, total_weight>>)
    ELSE
    Bind(market.odds_list[i], LAMBDA odds :
    Bind(get_odds_by_book(opposing_market, odds.bookmaker), LAMBDA opposing_odds :
    Bind(get_book_weight(odds.bookmaker), LAMBDA weight :
        IF opposing_odds = <<>>
        THEN PairedLoop_unmatched_counted(market, opposing_market, method, i + 1,
                                          RAdd(weighted_prob, RMul(odds.implied_prob, weight)),
                                          RAdd(total_weight, weight))
        ELSE
        Bind(devig(<<odds.implied_prob, opposing_odds[1].implied_prob>>, method), LAMBDA result :
            IF result.err # "none" THEN result
            ELSE PairedLoop_unmatched_counted(market, opposing_market, method, i + 1,
                     RAdd(weighted_prob, RMul(QuantLarge(result.val.fair_probs[1]), weight)),
                     RAdd(total_weight, weight))))))

RECURSIVE PairedLoop(_, _, _, _, _, _)
PairedLoop(market, opposing_market, method, i, weighted_prob, total_weight) ==
    IF i > Len(market.odds_list) THEN Return(<<weighted_prob, total_weight>>)
    ELSE
    Bind(market.odds_list[i], LAMBDA odds :
    Bind(get_odds_by_book(opposing_market, odds.bookmaker), LAMBDA opposing_odds :
        IF opposing_odds = <<>>
        THEN PairedLoop(market, opposing_market, method, i + 1, weighted_prob, total_weight)
        ELSE
        Bind(devig(<<odds.implied_prob, opposing_odds[1].implied_prob>>, method), LAMBDA result :
            IF result.err # "none" THEN result
            ELSE
            Bind(get_book_weight(odds.bookmaker), LAMBDA weight :
                PairedLoop(market, opposing_market, method, i + 1,
                           RAdd(weighted_prob,
                                RMul(QuantLarge(result.val.fair_probs[1]), weight)),
                           RAdd(total_weight, weight))))))

_paired_fair_probability(market, opposing_market, method) ==
    Bind(PairedLoop(market, opposing_market, method, 1, Zero, Zero), LAMBDA acc :
        IF acc.err # "none" THEN acc
        ELSE IF acc.val[2] = Zero THEN Return(Zero)
        ELSE Return(RDiv(acc.val[1], acc.val[2])))

\* The assumed one-side margin: estimated_fair = implied_prob / 1.025.
SingleSideMargin == Rat(1025, 1000)

\* Mutant: the plain mean of the estimates, every bookmaker counting the same.
single_side_fair_probability_unweighted(market) ==
    Return(RDiv(RSum([i \in 1..Len(market.odds_list) |->
                        RDiv(market.odds_list[i].implied_prob, SingleSideMargin)]),
                RInt(Len(market.odds_list))))

_single_side_fair_probability(market) ==
    Bind(RSum([i \in 1..Len(market.odds_list) |->
                 RMul(RDiv(market.odds_list[i].implied_prob, SingleSideMargin),
                      get_book_weight(market.odds_list[i].bookmaker))]), LAMBDA weighted_prob :
    Bind(RSum([i \in 1..Len(market.odds_list) |->
                 get_book_weight(market.odds_list[i].bookmaker)]), LAMBDA total_weight :
        IF total_weight = Zero THEN Return(Zero)
        ELSE Return(RDiv(weighted_prob, total_weight))))

\* opposing_market is <<>> for None.
calculate_fair_probability(market, opposing_market, method) ==
    IF Len(market.odds_list) = 0 THEN Return(Zero)
    ELSE IF opposing_market # <<>> /\ Len(opposing_market[1].odds_list) > 0
    THEN _paired_fair_probability(market, opposing_market[1], method)
    ELSE _single_side_fair_probability(market)

\* bets.sort(key=lambda b: b.ev_percent, reverse=True): a stable sort, so a bet
\* goes after the bets of an equal or greater ev_percent that came before it.
\* Mutant: a bet goes before the bets of an equal ev_percent.
RECURSIVE InsertBet_before_equal(_, _, _)
InsertBet_before_equal(sorted, bet, i) ==
    IF i > Len(sorted) THEN Append(sorted, bet)
    ELSE IF RLe(sorted[i].ev_percent, bet.ev_percent)
    THEN SubSeq(sorted, 1, i - 1) \o <<bet>> \o SubSeq(sorted, i, Len(sorted))
    ELSE InsertBet_before_equal(sorted, bet, i + 1)

RECURSIVE InsertBet(_, _, _)
InsertBet(sorted, bet, i) ==
    IF i > Len(sorted) THEN Append(sorted, bet)
    ELSE IF RLt(sorted[i].ev_percent, bet.ev_percent)
    THEN SubSeq(sorted, 1, i - 1) \o <<bet>> \o SubSeq(sorted, i, Len(sorted))
    ELSE InsertBet(sorted, bet, i + 1)

RECURSIVE SortBets(_, _)
SortBets(bets, n) ==
    IF n = 0 THEN <<>> ELSE InsertBet(SortBets(bets, n - 1), bets[n], 1)

\* The Bet find_ev_bets builds for a market that passed the min_ev filter.
SizedBet(market, best, fair_prob, ev_percent, bankroll, kelly_fraction) ==
    Bind(kelly_criterion(fair_prob, best.decimal, bankroll, kelly_fraction,
                         DefaultMaxBetPercent), LAMBDA kelly_result :
        Bet(market, best, fair_prob, ev_percent,
            kelly_result.recommended_fraction, kelly_result.recommended_stake))

\* One pass of the loop body of find_ev_bets: <<>> for `continue`, <<bet>> for an
\* appended bet, wrapped in a result; or the exception raised.
EvStep(market, opposing, bankroll, min_ev, kelly_fraction, devig_method) ==
    IF Len(market.odds_list) = 0 THEN Return(<<>>)
    ELSE
    Bind(calculate_fair_probability(market, opposing, devig_method), LAMBDA fair :
        IF fair.err # "none" THEN fair
        ELSE IF RLe(fair.val, Zero) THEN Return(<<>>)
        ELSE
        Bind(best_odds(market), LAMBDA best :
            IF best = <<>> THEN Return(<<>>)
            ELSE
            Bind(calculate_ev(fair.val, best[1].decimal), LAMBDA ev_percent :
                IF RLt(ev_percent, min_ev) THEN Return(<<>>)
                ELSE Return(<<SizedBet(market, best[1], fair.val, ev_percent,
                                       bankroll, kelly_fraction)>>))))

\* Mutant: the loop ends at the first pair that yields no bet.
RECURSIVE EvLoop_break_on_skip(_, _, _, _, _, _, _)
EvLoop_break_on_skip(markets, bankroll, min_ev, kelly_fraction, devig_method, i, bets) ==
    IF i > Len(markets) THEN Return(bets)
    ELSE
    Bind(EvStep(markets[i][1], markets[i][2], bankroll, min_ev, kelly_fraction,
                devig_method), LAMBDA step :
        IF step.err # "none" THEN step
        ELSE IF step.val = <<>> THEN Return(bets)
        ELSE EvLoop_break_on_skip(markets, bankroll, min_ev, kelly_fraction, devig_method,
                                  i + 1, bets \o step.val))

\* The loop of find_ev_bets from pair i on, with the bets appended so far.
RECURSIVE EvLoop(_, _, _, _, _, _, _)
EvLoop(markets, bankroll, min_ev, kelly_fraction, devig_method, i, bets) ==
    IF i > Len(markets) THEN Return(bets)
    ELSE
    Bind(EvStep(markets[i][1], markets[i][2], bankroll, min_ev, kelly_fraction,
                devig_method), LAMBDA step :
        IF step.err # "none" THEN step
        ELSE EvLoop(markets, bankroll, min_ev, kelly_fraction, devig_method, i + 1,
                    bets \o step.val))

find_ev_bets(markets, bankroll, min_ev, kelly_fraction, devig_method) ==
    Bind(EvLoop(markets, bankroll, min_ev, kelly_fraction, devig_method, 1, <<>>),
         LAMBDA found :
        IF found.err # "none" THEN found
        ELSE Return(SortBets(found.val, Len(found.val))))

(***************************************************************************)
(* arbitrage.py: find_arbitrage                                            *)
(***************************************************************************)
\* str() of a digit.
DigitStr(d) ==
    CASE d = 0 -> "0" [] d = 1 -> "1" [] d = 2 -> "2" [] d = 3 -> "3" [] d = 4 -> "4"
      [] d = 5 -> "5" [] d = 6 -> "6" [] d = 7 -> "7" [] d = 8 -> "8" [] OTHER -> "9"

\* str() of a natural number.
RECURSIVE NatStr(_)
NatStr(n) == IF n < 10 THEN DigitStr(n) ELSE NatStr(n \div 10) \o DigitStr(n % 10)

\* str() of a float with at most two decimals: sign, integer part, "." and the
\* decimals without trailing zeros, at least one.
FloatStr(x) ==
    Bind((Abs(x[1]) * 100) \div x[2], LAMBDA hundredths :
        (IF x[1] < 0 THEN "-" ELSE "")
            \o NatStr(hundredths \div 100) \o "."
            \o DigitStr((hundredths % 100) \div 10)
            \o (IF hundredths % 10 = 0 THEN "" ELSE DigitStr(hundredths % 10)))

\* f"{market.event}_{market.market_type}{point_str}"
EventKey(market) ==
    market.event \o "_" \o market.market_type
        \o (IF market.point # <<>> THEN "_" \o FloatStr(market.point[1]) ELSE "")

\* The position of key among the keys of events, or 0.
RECURSIVE KeyIndex(_, _, _)
KeyIndex(events, key, k) ==
    IF k > Len(events) THEN 0
    ELSE IF events[k][1] = key THEN k
    ELSE KeyIndex(events, key, k + 1)

\* The loop of _group_by_event from market i on; events is the dict as the list
\* of its <<key, markets>> items in insertion order.
RECURSIVE GroupLoop(_, _, _)
GroupLoop(markets, i, events) ==
    IF i > Len(markets) THEN events
    ELSE
    Bind(EventKey(markets[i]), LAMBDA key :
    Bind(KeyIndex(events, key, 1), LAMBDA k :
        IF k = 0
        THEN GroupLoop(markets, i + 1, Append(events, <<key, <<markets[i]>>>>))
        ELSE GroupLoop(markets, i + 1,
                       [events EXCEPT ![k] = <<key, Append(events[k][2], markets[i])>>])))

_group_by_event(markets) == GroupLoop(markets, 1, <<>>)

ArbitrageOpportunity(sport, event, market_type, selections, total_implied, profit_percent, stakes) ==
    [sport |-> sport, event |-> event, market_type |-> market_type,
     selections |-> selections, total_implied |-> total_implied,
     profit_percent |-> profit_percent, stakes |-> stakes]

\* Mutant: the total stake is split evenly over the outcomes.
calculate_arb_stakes_even(selections, total_stake) ==
    [i \in 1..Len(selections) |->
        <<selections[i][1], selections[i][2].bookmaker,
          Round2(RDiv(total_stake, RInt(Len(selections))))>>]

\* Mutant: the stakes are not rounded.
calculate_arb_stakes_unrounded(selections, total_stake) ==
    Bind(RSum([i \in 1..Len(selections) |-> RDiv(One, selections[i][2].decimal)]),
         LAMBDA total_inverse :
        [i \in 1..Len(selections) |->
            <<selections[i][1], selections[i][2].bookmaker,
              RDiv(total_stake, RMul(selections[i][2].decimal, total_inverse))>>])

\* selections is a list of <<selection, Odds>>, with decimal > 0 in every Odds.
_calculate_arb_stakes(selections, total_stake) ==
    Bind(RSum([i \in 1..Len(selections) |-> RDiv(One, selections[i][2].decimal)]),
         LAMBDA total_inverse :
        [i \in 1..Len(selections) |->
            <<selections[i][1], selections[i][2].bookmaker,
              Round2(RDiv(total_stake, RMul(selections[i][2].decimal, total_inverse)))>>])

\* The loop over the markets in _check_arbitrage: <<>> when a market has no
\* quote, else <<best_odds_per_outcome>>.
RECURSIVE BestPerOutcome(_, _, _)
BestPerOutcome(markets, i, best_odds_per_outcome) ==
    IF i > Len(markets) THEN <<best_odds_per_outcome>>
    ELSE
    Bind(best_odds(markets[i]), LAMBDA best :
        IF best = <<>> THEN <<>>
        ELSE BestPerOutcome(markets, i + 1,
                            Append(best_odds_per_outcome, <<markets[i].selection, best[1]>>)))

\* The ArbitrageOpportunity of _check_arbitrage once total_implied < 1 is known.
ArbOf(markets, selections, total_implied, min_profit, total_stake) ==
    Bind(RMul(RSub(RDiv(One, total_implied), One), RInt(100)), LAMBDA profit_percent :
        IF RLt(profit_percent, min_profit) THEN Return(<<>>)
        ELSE Return(<<ArbitrageOpportunity(markets[1].sport, markets[1].event,
                                           markets[1].market_type, selections,
                                           total_implied, profit_percent,
                                           _calculate_arb_stakes(selections, total_stake))>>))

\* Mutant: the first quote of every market is used, not the best one.
check_arbitrage_first_quote(markets, min_profit, total_stake) ==
    IF Len(markets) < 2 THEN Return(<<>>)
    ELSE IF \E i \in 1..Len(markets) : Len(markets[i].odds_list) = 0 THEN Return(<<>>)
    ELSE
    Bind([i \in 1..Len(markets) |-> <<markets[i].selection, markets[i].odds_list[1]>>],
         LAMBDA selections :
    Bind(RSum([i \in 1..Len(selections) |-> selections[i][2].implied_prob]),
         LAMBDA total_implied :
        IF RGe(total_implied, One) THEN Return(<<>>)
        ELSE ArbOf(markets, selections, total_implied, min_profit, total_stake)))

\* The result is <<>> for None and <<opportunity>> otherwise.
_check_arbitrage(markets, min_profit, total_stake) ==
    IF Len(markets) < 2 THEN Return(<<>>)
    ELSE
    Bind(BestPerOutcome(markets, 1, <<>>), LAMBDA found :
        IF found = <<>> THEN Return(<<>>)
        ELSE
        Bind(RSum([i \in 1..Len(found[1]) |-> found[1][i][2].implied_prob]),
             LAMBDA total_implied :
            IF RGe(total_implied, One) THEN Return(<<>>)
            ELSE IF total_implied = Zero THEN DivisionByZero
            ELSE ArbOf(markets, found[1], total_implied, min_profit, total_stake)))

\* opportunities.sort(key=lambda a: a.profit_percent, reverse=True): stable.
RECURSIVE InsertArb(_, _, _)
InsertArb(sorted, arb, i) ==
    IF i > Len(sorted) THEN Append(sorted, arb)
    ELSE IF RLt(sorted[i].profit_percent, arb.profit_percent)
    THEN SubSeq(sorted, 1, i - 1) \o <<arb>> \o SubSeq(sorted, i, Len(sorted))
    ELSE InsertArb(sorted, arb, i + 1)

RECURSIVE SortArbs(_, _)
SortArbs(opportunities, n) ==
    IF n = 0 THEN <<>> ELSE InsertArb(SortArbs(opportunities, n - 1), opportunities[n], 1)

\* The loop of find_arbitrage over the items of events from item k on.
RECURSIVE ArbLoop(_, _, _, _, _)
ArbLoop(events, min_profit, total_stake, k, opportunities) ==
    IF k > Len(events) THEN Return(opportunities)
    ELSE
    Bind(_check_arbitrage(events[k][2], min_profit, total_stake), LAMBDA arb :
        IF arb.err # "none" THEN arb
        ELSE ArbLoop(events, min_profit, total_stake, k + 1, opportunities \o arb.val))

\* Mutant: the opportunities are returned in the order of their groups.
find_arbitrage_unsorted(markets, min_profit, total_stake) ==
    ArbLoop(_group_by_event(markets), min_profit, total_stake, 1, <<>>)

find_arbitrage(markets, min_profit, total_stake) ==
    Bind(ArbLoop(_group_by_event(markets), min_profit, total_stake, 1, <<>>),
         LAMBDA found :
        IF found.err # "none" THEN found
        ELSE Return(SortArbs(found.val, Len(found.val))))

\* The stake of the last entry of stakes[1..k] for selection, or 0:
\* stake_lookup.get(selection, 0).
RECURSIVE StakeLookup(_, _, _)
StakeLookup(stakes, selection, k) ==
    IF k = 0 THEN Zero
    ELSE IF stakes[k][1] = selection THEN stakes[k][3]
    ELSE StakeLookup(stakes, selection, k - 1)

\* The index of the last entry of odds_list for selection.
RECURSIVE LastEntry(_, _, _)
LastEntry(odds_list, selection, k) ==
    IF odds_list[k][1] = selection THEN k ELSE LastEntry(odds_list, selection, k - 1)

\* The dict of profits as a function of the selection.
calculate_arb_profit(stakes, odds_list) ==
    Bind(RSum([k \in 1..Len(stakes) |-> stakes[k][3]]), LAMBDA total_staked :
        [selection \in {odds_list[k][1] : k \in 1..Len(odds_list)} |->
            Round2(RSub(RMul(StakeLookup(stakes, selection, Len(stakes)),
                             odds_list[LastEntry(odds_list, selection, Len(odds_list))][2].decimal),
                        total_staked))])

\* f"{point:+.1f}": the sign, then the magnitude rounded to one decimal, a tie
\* going to the even digit.
SignedTenths(x) ==
    Bind((Abs(x[1]) * 10) \div x[2], LAMBDA q :
    Bind((Abs(x[1]) * 10) % x[2], LAMBDA r :
    Bind(IF 2 * r > x[2] \/ (2 * r = x[2] /\ q % 2 = 1) THEN q + 1 ELSE q, LAMBDA tenths :
        (IF x[1] < 0 THEN "-" ELSE "+") \o NatStr(tenths \div 10) \o "." \o DigitStr(tenths % 10))))

\* The dict find_middles appends for market1 and market2.
Middle(market1, best1, market2, best2, middle_size) ==
    [event |-> market1.event,
     side1 |-> market1.selection \o " " \o SignedTenths(market1.point[1]),
     book1 |-> best1.bookmaker, odds1 |-> best1.american,
     side2 |-> market2.selection \o " " \o SignedTenths(market2.point[1]),
     book2 |-> best2.bookmaker, odds2 |-> best2.american,
     middle_size |-> middle_size]

\* The body of the inner loop of find_middles: <<>> for `continue` and for a pair
\* that is not appended, else <<middle>>.
MiddleStep(market1, market2, min_gap) ==
    IF market1.point = <<>> \/ market2.point = <<>> THEN <<>>
    ELSE IF market1.selection = market2.selection THEN <<>>
    ELSE IF ~ \/ RLt(market1.point[1], Zero) /\ RGt(market2.point[1], Zero)
              \/ RGt(market1.point[1], Zero) /\ RLt(market2.point[1], Zero)
    THEN <<>>
    ELSE
    Bind(RAdd(market1.point[1], market2.point[1]), LAMBDA middle_size :
        IF ~RGe(middle_size, min_gap) THEN <<>>
        ELSE
        Bind(best_odds(market1), LAMBDA best1 :
        Bind(best_odds(market2), LAMBDA best2 :
            IF best1 # <<>> /\ best2 # <<>>
            THEN <<Middle(market1, best1[1], market2, best2[1], middle_size)>>
            ELSE <<>>)))

\* The two loops over the markets of one group, from the pair (i, j) on.
RECURSIVE MiddlePairs(_, _, _, _, _)
MiddlePairs(markets, i, j, min_gap, middles) ==
    IF i > Len(markets) THEN middles
    ELSE IF j > Len(markets) THEN MiddlePairs(markets, i + 1, i + 2, min_gap, middles)
    ELSE MiddlePairs(markets, i, j + 1, min_gap,
                     middles \o MiddleStep(markets[i], markets[j], min_gap))

\* The loop of find_middles over the items of events from item k on.
RECURSIVE MiddleLoop(_, _, _, _)
MiddleLoop(events, min_gap, k, middles) ==
    IF k > Len(events) THEN middles
    ELSE IF Len(events[k][2]) < 2 THEN MiddleLoop(events, min_gap, k + 1, middles)
    ELSE MiddleLoop(events, min_gap, k + 1,
                    MiddlePairs(events[k][2], 1, 2, min_gap, middles))

\* middles.sort(key=lambda m: m["middle_size"], reverse=True): stable.
RECURSIVE InsertMiddle(_, _, _)
InsertMiddle(sorted, middle, i) ==
    IF i > Len(sorted) THEN Append(sorted, middle)
    ELSE IF RLt(sorted[i].middle_size, middle.middle_size)
    THEN SubSeq(sorted, 1, i - 1) \o <<middle>> \o SubSeq(sorted, i, Len(sorted))
    ELSE InsertMiddle(sorted, middle, i + 1)

RECURSIVE SortMiddles(_, _)
SortMiddles(middles, n) ==
    IF n = 0 THEN <<>> ELSE InsertMiddle(SortMiddles(middles, n - 1), middles[n], 1)

find_middles(spread_markets, min_gap) ==
    Bind(MiddleLoop(_group_by_event(spread_markets), min_gap, 1, <<>>), LAMBDA middles :
        SortMiddles(middles, Len(middles)))

(***************************************************************************)
(* bet_creator.py: the ledger of manually created bets                     *)
(***************************************************************************)
\* my_bets.json does not exist.
NoFile == [exists |-> FALSE, bets |-> <<>>]

\* asdict(Bet(...)) of bet_creator.py, with the defaults of status and
\* result_amount.
CreatorBet(id, event, selection, american_odds, win_prob, stake, kelly_fraction, ev_percent, created_at, notes) ==
    [id |-> id, event |-> event, selection |-> selection,
     american_odds |-> american_odds, win_prob |-> win_prob, stake |-> stake,
     kelly_fraction |-> kelly_fraction, ev_percent |-> ev_percent,
     created_at |-> created_at, status |-> "pending", result_amount |-> Zero,
     notes |-> notes]

american_to_decimal(american) ==
    IF american > 0 THEN Return(RAdd(One, Rat(american, 100)))
    ELSE IF Abs(american) = 0 THEN DivisionByZero
    ELSE Return(RAdd(One, Rat(100, Abs(american))))

\* Mutant: the EV formula of ev_calculator.py.
calc_ev_guarded(win_prob, decimal_odds) ==
    IF RLe(win_prob, Zero) \/ RLe(decimal_odds, One) THEN Zero
    ELSE RMul(RSub(RMul(win_prob, decimal_odds), One), RInt(100))

calc_ev(win_prob, decimal_odds) ==
    Bind(RSub(RMul(win_prob, RSub(decimal_odds, One)), RSub(One, win_prob)), LAMBDA ev :
        RMul(ev, RInt(100)))

\* load_bets(): [] when the file does not exist, else the list it holds.  (The
\* file is written by save_bets only, so json.load does not fail.)
load_bets == IF ~bets_file.exists THEN <<>> ELSE bets_file.bets

\* The file after save_bets(bets).
save_bets(bets) == [exists |-> TRUE, bets |-> bets]

\* max(b["id"] for b in bets[1..k]), k >= 1.
RECURSIVE MaxId(_, _)
MaxId(bets, k) ==
    IF k = 1 THEN bets[1].id
    ELSE IF bets[k].id > MaxId(bets, k - 1) THEN bets[k].id ELSE MaxId(bets, k - 1)

\* Mutant: the greatest id, not the one after it.
get_next_id_max(bets) == IF Len(bets) = 0 THEN 1 ELSE MaxId(bets, Len(bets))

get_next_id(bets) == IF Len(bets) = 0 THEN 1 ELSE MaxId(bets, Len(bets)) + 1

\* create_bet with the defaults max_bet_pct = 0.05 and notes = ""; now is
\* datetime.now().isoformat().  ret is what the call returns or raises and file
\* what my_bets.json holds after it.
create_bet(event, selection, american_odds, win_prob, bankroll, kelly_frac, now) ==
    Bind(american_to_decimal(american_odds), LAMBDA decimal_odds :
        IF decimal_odds.err # "none" THEN [ret |-> decimal_odds, file |-> bets_file]
        ELSE
        Bind(kelly_criterion(win_prob, decimal_odds.val, bankroll, kelly_frac, Rat(5, 100)),
             LAMBDA result :
        Bind(calc_ev(win_prob, decimal_odds.val), LAMBDA ev_pct :
        Bind(load_bets, LAMBDA bets :
        Bind(CreatorBet(get_next_id(bets), event, selection, american_odds, win_prob,
                        result.recommended_stake, result.recommended_fraction, ev_pct,
                        now, ""), LAMBDA bet :
            [ret |-> Return(bet), file |-> save_bets(Append(bets, bet))])))))

\* quick_size: the dict it returns, or the exception of a price of 0.
quick_size(american_odds, win_prob, bankroll, kelly_frac) ==
    Bind(american_to_decimal(american_odds), LAMBDA decimal_odds :
        IF decimal_odds.err # "none" THEN decimal_odds
        ELSE
        Bind(kelly_criterion(win_prob, decimal_odds.val, bankroll, kelly_frac, Rat(5, 100)),
             LAMBDA result :
        Bind(calc_ev(win_prob, decimal_odds.val), LAMBDA ev_pct :
        Bind(Odds("calc", american_odds).val.implied_prob, LAMBDA implied_prob :
            Return([american_odds |-> american_odds,
                    decimal_odds |-> Round3(decimal_odds.val),
                    implied_prob |-> Round2(RMul(implied_prob, RInt(100))),
                    your_prob |-> Round2(RMul(win_prob, RInt(100))),
                    edge |-> Round2(RMul(RSub(win_prob, implied_prob), RInt(100))),
                    ev_percent |-> Round2(ev_pct),
                    full_kelly |-> Round2(RMul(result.full_kelly, RInt(100))),
                    recommended_fraction |-> Round2(RMul(result.recommended_fraction, RInt(100))),
                    recommended_stake |-> result.recommended_stake])))))

\* The position of the first bet with the id bet_id from position k on, or 0.
RECURSIVE FirstWithId(_, _, _)
FirstWithId(bets, bet_id, k) ==
    IF k > Len(bets) THEN 0
    ELSE IF bets[k].id = bet_id THEN k
    ELSE FirstWithId(bets, bet_id, k + 1)

\* The bet once mark_bet_result has set its status and result_amount.
Settled(bet, won, void) ==
    IF void THEN [bet EXCEPT !.status = "void", !.result_amount = Zero]
    ELSE IF won
    THEN [bet EXCEPT !.status = "won",
                     !.result_amount =
                         Round2(RMul(bet.stake,
                                     RSub(american_to_decimal(bet.american_odds).val, One)))]
    ELSE [bet EXCEPT !.status = "lost", !.result_amount = RNeg(bet.stake)]

\* Mutant: every bet from the one with the id on is settled.
mark_bet_result_from_id_on(bet_id, won, void) ==
    Bind(load_bets, LAMBDA bets :
    Bind(FirstWithId(bets, bet_id, 1), LAMBDA k :
        IF k = 0 THEN [ret |-> Return(<<>>), file |-> bets_file]
        ELSE [ret |-> Return(<<Settled(bets[k], won, void)>>),
              file |-> save_bets([h \in 1..Len(bets) |->
                                     IF h >= k THEN Settled(bets[h], won, void)
                                     ELSE bets[h]])]))

\* mark_bet_result: ret is <<>> for None and <<bet>> for the bet returned.
mark_bet_result(bet_id, won, void) ==
    Bind(load_bets, LAMBDA bets :
    Bind(FirstWithId(bets, bet_id, 1), LAMBDA k :
        IF k = 0 THEN [ret |-> Return(<<>>), file |-> bets_file]
        ELSE [ret |-> Return(<<Settled(bets[k], won, void)>>),
              file |-> save_bets([bets EXCEPT ![k] = Settled(bets[k], won, void)])]))

(***************************************************************************)
(* The de-vig engine applied to a vector of implied probabilities          *)
(***************************************************************************)
NoResult == [err |-> "pending", val |-> <<>>]

\* The implied probabilities the vectors are drawn from.
ProbGrid == {Zero, Rat(1, 20), Rat(2, 5), Rat(1, 2), Rat(11, 20), One}

\* The longest vector of implied probabilities.
MaxLen == 3

ProbVectors == UNION {[1..n -> ProbGrid] : n \in 0..MaxLen}

\* Method names a caller may pass: the five of DEVIG_METHODS and two others.
MethodArgs == {"multiplicative", "additive", "power", "shin", "weighted", "Weighted", "kelly"}

InitDevig ==
    /\ pc = "ready"
    /\ fn = "devig"
    /\ args \in ProbVectors \X MethodArgs
    /\ ret = NoResult
    /\ bets_file = NoFile

CallDevig ==
    /\ pc = "ready"
    /\ fn = "devig"
    /\ ret' = devig(args[1], args[2])
    /\ pc' = "done"
    /\ UNCHANGED <<fn, args, bets_file>>

NextDevig == CallDevig

SpecDevig == InitDevig /\ [][NextDevig]_vars

AllPositive(probs) == \A i \in 1..Len(probs) : RGt(probs[i], Zero)

\* The case of C1: a recognised method applied to at least 2 positive implied
\* probabilities that carry vig.
VigCase ==
    /\ fn = "devig"
    /\ pc = "done"
    /\ args[2] \in {"multiplicative", "additive", "power", "shin", "weighted"}
    /\ Len(args[1]) >= 2
    /\ AllPositive(args[1])
    /\ RGt(RSum(args[1]), One)

\* C1: every de-vig method maps at least 2 positive implied probabilities of sum
\* > 1 to a vector of the same length whose entries sum to 1 within 1e-6 and lie
\* strictly between 0 and 1.
C1_DevigNormalised ==
    VigCase =>
        /\ ret.err = "none"
        /\ Len(ret.val.fair_probs) = Len(args[1])
        /\ RLe(RAbs(RSub(RSum(ret.val.fair_probs), One)), Rat(1, 1000000))
        /\ \A i \in 1..Len(ret.val.fair_probs) :
              /\ RGt(ret.val.fair_probs[i], Zero)
              /\ RLt(ret.val.fair_probs[i], One)

\* A three-way market with a longshot whose additive share is floored at 0.001.
C1_Witness ==
    /\ VigCase
    /\ args = <<<<Rat(1, 20), One, One>>, "additive">>
    /\ ret.err = "none"
    /\ ret.val.fair_probs[1] = Rat(1, 1301)

\* C2: devig with a method name outside the five fails with a ValueError whose
\* message lists the five allowed names, and returns no DevigResult.
C2_UnknownMethodRaises ==
    (/\ fn = "devig"
     /\ pc = "done"
     /\ args[2] \notin {"multiplicative", "additive", "power", "shin", "weighted"})
    => /\ ret.err = "ValueError"
       /\ ret.val[2] = args[2]
       /\ {ret.val[4][i] : i \in 1..Len(ret.val[4])}
              = {"multiplicative", "additive", "power", "shin", "weighted"}

C2_Witness ==
    /\ fn = "devig"
    /\ pc = "done"
    /\ args[2] = "kelly"
    /\ Len(args[1]) = 2
    /\ ret.err = "ValueError"

(***************************************************************************)
(* The Odds value, the Kelly sizer and the EV formula applied to their     *)
(* arguments                                                               *)
(***************************************************************************)
Bookmakers == {"pinnacle", "FanDuel", "mybook"}

\* American prices are drawn from -MaxAmerican..MaxAmerican.
MaxAmerican == 150

WinProbs == {Rat(-1, 10), Zero, Rat(2, 5), Rat(1, 2), Rat(11, 20), Rat(3, 5), One, Rat(6, 5)}
DecimalOdds == {Zero, Rat(1, 2), One, Rat(3, 2), RInt(2), Rat(21, 10), RInt(5)}
Bankrolls == {Zero, RInt(100), RInt(333), RInt(1000)}
Fractions == {Rat(1, 4), Rat(1, 2), One}
MaxBetPercents == {Rat(1, 20), Rat(1, 10)}

KellyArgs == WinProbs \X DecimalOdds \X Bankrolls \X Fractions \X MaxBetPercents

\* The calls of kelly_criterion whose results make up a batch for scale_exposure.
BatchCalls ==
    {<<Rat(11, 20), RInt(2), RInt(1000), Rat(1, 4), Rat(1, 20)>>,
     <<Rat(3, 5), Rat(21, 10), RInt(1000), One, Rat(1, 10)>>,
     <<Rat(3, 5), Rat(21, 10), RInt(1000), Rat(1, 4), Rat(1, 20)>>,
     <<Rat(2, 5), Rat(3, 2), RInt(1000), Rat(1, 4), Rat(1, 20)>>,
     <<Rat(1, 2), RInt(5), RInt(333), Rat(1, 4), Rat(1, 20)>>,
     <<Rat(11, 20), RInt(2), RInt(100), Rat(1, 2), Rat(1, 10)>>}

BatchResults == {kelly_criterion(a[1], a[2], a[3], a[4], a[5]) : a \in BatchCalls}

\* The longest batch of Kelly results.
MaxBatch == 3

Batches == UNION {[1..n -> BatchResults] : n \in 0..MaxBatch}
MaxTotalExposures == {Zero, Rat(1, 10), Rat(1, 4), Rat(1, 2)}

EvProbs == {Rat(-1, 10), Zero, Rat(2, 5), Rat(1, 2), Rat(11, 20), One}

\* Batches sized for one bankroll B and scaled for it: fractions 0.05 (capped),
\* 0.025 and 0 (no bet); at B = 1797.10 the first stake is 89.855 rounded.
SizedBankrolls == {RInt(1000), Rat(17971, 10)}

SizedResults(B) ==
    {kelly_criterion(Rat(3, 5), Rat(21, 10), B, One, Rat(1, 20)),
     kelly_criterion(Rat(11, 20), RInt(2), B, Rat(1, 4), Rat(1, 20)),
     kelly_criterion(Rat(2, 5), Rat(3, 2), B, Rat(1, 4), Rat(1, 20))}

ExposureCaps == {Zero, Rat(1, 25), Rat(1, 10), Rat(1, 4)}

SizedArgs ==
    UNION {(UNION {[1..n -> SizedResults(B)] : n \in 0..MaxBatch}) \X {B} \X ExposureCaps :
              B \in SizedBankrolls}

\* Correlation coefficients; -0.5 with 3 bets makes the divisor 0.
Correlations == {Rat(-1, 2), Zero, Rat(1, 4), Rat(1, 2), One}

\* The largest number of correlated bets.
MaxCorrelated == 3

Init ==
    /\ pc = "ready"
    /\ ret = NoResult
    /\ bets_file = NoFile
    /\ \/ fn = "Odds" /\ args \in Bookmakers \X (-MaxAmerican..MaxAmerican)
       \/ fn = "kelly_criterion" /\ args \in KellyArgs
       \/ fn = "scale_exposure" /\ args \in Batches \X {RInt(1000)} \X MaxTotalExposures
       \/ fn = "scale_exposure" /\ args \in SizedArgs
       \/ fn = "calculate_ev" /\ args \in EvProbs \X DecimalOdds
       \/ /\ fn = "kelly_with_correlation"
          /\ args \in WinProbs \X DecimalOdds \X {RInt(100), RInt(1000)} \X Correlations
                         \X (1..MaxCorrelated) \X Fractions

CallOdds ==
    /\ pc = "ready"
    /\ fn = "Odds"
    /\ ret' = Odds(args[1], args[2])
    /\ pc' = "done"
    /\ UNCHANGED <<fn, args, bets_file>>

CallKelly ==
    /\ pc = "ready"
    /\ fn = "kelly_criterion"
    /\ ret' = Return(kelly_criterion(args[1], args[2], args[3], args[4], args[5]))
    /\ pc' = "done"
    /\ UNCHANGED <<fn, args, bets_file>>

CallScaleExposure ==
    /\ pc = "ready"
    /\ fn = "scale_exposure"
    /\ ret' = scale_exposure(args[1], args[2], args[3])
    /\ pc' = "done"
    /\ UNCHANGED <<fn, args, bets_file>>

CallCalculateEv ==
    /\ pc = "ready"
    /\ fn = "calculate_ev"
    /\ ret' = Return(calculate_ev(args[1], args[2]))
    /\ pc' = "done"
    /\ UNCHANGED <<fn, args, bets_file>>

CallKellyWithCorrelation ==
    /\ pc = "ready"
    /\ fn = "kelly_with_correlation"
    /\ ret' = kelly_with_correlation(args[1], args[2], args[3], args[4], args[5], args[6])
    /\ pc' = "done"
    /\ UNCHANGED <<fn, args, bets_file>>

Next ==
    \/ CallOdds
    \/ CallKelly
    \/ CallScaleExposure
    \/ CallCalculateEv
    \/ CallKellyWithCorrelation

Spec == Init /\ [][Next]_vars

OddsDone == fn = "Odds" /\ pc = "done"
KellyDone == fn = "kelly_criterion" /\ pc = "done"
ScaleDone == fn = "scale_exposure" /\ pc = "done"
EvDone == fn = "calculate_ev" /\ pc = "done"
CorrelationDone == fn = "kelly_with_correlation" /\ pc = "done"

\* x is a whole number of cents.
IsCents(x) == 100 % x[2] = 0

\* x is y rounded to 2 decimals: a whole number of cents within half a cent of y.
IsRounded2(x, y) == IsCents(x) /\ RLe(RAbs(RSub(x, y)), Rat(1, 200))

\* C4: constructing an Odds with American price 0 fails with an error, and every
\* Odds that is produced has a nonzero American price and a decimal price > 1.
C4_ZeroAmericanRejected ==
    OddsDone =>
        /\ args[2] = 0 => ret.err # "none"
        /\ ret.err = "none" => ret.val.american # 0 /\ RGt(ret.val.decimal, One)

C4_Witness == OddsDone /\ args[2] = 0 /\ ret.err = "ZeroDivisionError"

\* C5: for a nonzero American price a the Odds has decimal = 1 + a/100 (a > 0) or
\* 1 + 100/|a| (a < 0) and implied_prob = 1/decimal, so decimal > 1 and
\* 0 < implied_prob < 1.
C5_OddsConversion ==
    (OddsDone /\ args[2] # 0) =>
        /\ ret.err = "none"
        /\ ret.val.american = args[2]
        /\ args[2] > 0 => RMul(RSub(ret.val.decimal, One), RInt(100)) = RInt(args[2])
        /\ args[2] < 0 => RMul(RSub(ret.val.decimal, One), RInt(-args[2])) = RInt(100)
        /\ RMul(ret.val.implied_prob, ret.val.decimal) = One
        /\ RGt(ret.val.decimal, One)
        /\ RGt(ret.val.implied_prob, Zero)
        /\ RLt(ret.val.implied_prob, One)

\* -110 is priced 21/11 and implies 11/21.
C5_Witness ==
    /\ OddsDone
    /\ args[2] = -110
    /\ ret.err = "none"
    /\ ret.val.decimal = Rat(21, 11)
    /\ ret.val.implied_prob = Rat(11, 21)

\* The full Kelly fraction (b p - (1 - p)) / b of net odds b # 0.
FullKelly(p, b) == RDiv(RSub(RMul(b, p), RSub(One, p)), b)

\* The raw edge b p - (1 - p).
RawEdge(p, b) == RSub(RMul(b, p), RSub(One, p))

\* The case of C6: 0 < p < 1, net odds b = d - 1 > 0 and a positive full Kelly.
KellyBetCase ==
    /\ KellyDone
    /\ RGt(args[1], Zero)
    /\ RLt(args[1], One)
    /\ RGt(args[2], One)
    /\ RGt(FullKelly(args[1], RSub(args[2], One)), Zero)

\* C6: with 0 < p < 1, b = d - 1 and full Kelly (b p - (1 - p)) / b > 0,
\* kelly_criterion returns that full Kelly, recommended_fraction = min(full Kelly
\* * fraction, max_bet_percent) and recommended_stake = bankroll *
\* recommended_fraction rounded to 2 decimals; p = 0.55, d = 2.0, bankroll 1000,
\* fraction 0.25 (cap 0.05) gives 0.10, 0.025 and 25.00.
C6_KellySizing ==
    /\ KellyBetCase =>
          /\ ret.err = "none"
          /\ ret.val.full_kelly = FullKelly(args[1], RSub(args[2], One))
          /\ ret.val.recommended_fraction
                = RMin(RMul(FullKelly(args[1], RSub(args[2], One)), args[4]), args[5])
          /\ IsRounded2(ret.val.recommended_stake,
                        RMul(args[3], ret.val.recommended_fraction))
    /\ (KellyDone /\ args = <<Rat(55, 100), RInt(2), RInt(1000), Rat(25, 100), Rat(5, 100)>>) =>
          /\ ret.val.full_kelly = Rat(10, 100)
          /\ ret.val.recommended_fraction = Rat(25, 1000)
          /\ ret.val.recommended_stake = RInt(25)

\* A bet whose fractional Kelly, 0.2364, is cut to the cap 0.1.
C6_Witness ==
    /\ KellyBetCase
    /\ args = <<Rat(3, 5), Rat(21, 10), RInt(1000), One, Rat(1, 10)>>
    /\ ret.val.full_kelly = Rat(13, 55)
    /\ ret.val.recommended_fraction = Rat(1, 10)
    /\ ret.val.recommended_stake = RInt(100)

\* C7: with p <= 0 or p >= 1 kelly_criterion returns a no-bet result (full Kelly
\* 0, recommended fraction 0, stake 0) for every decimal odds and bankroll, and
\* raises nothing.
C7_DegenerateProbNoBet ==
    (KellyDone /\ (RLe(args[1], Zero) \/ RGe(args[1], One))) =>
        /\ ret.err = "none"
        /\ ret.val.full_kelly = Zero
        /\ ret.val.recommended_fraction = Zero
        /\ ret.val.recommended_stake = Zero

\* A certain win at decimal odds 2 with a bankroll of 1000: no bet.
C7_Witness ==
    /\ KellyDone
    /\ args[1] = One
    /\ args[2] = RInt(2)
    /\ args[3] = RInt(1000)
    /\ ret.val.recommended_stake = Zero

\* kelly_criterion recommends no bet.
NoBet == KellyDone /\ ret.err = "none" /\ RLe(ret.val.full_kelly, Zero)

\* C8 as stated: whenever kelly_criterion recommends no bet, p <= 0 and p >= 1
\* included, the stake is 0 and the reported edge is the raw edge b p - (1 - p).
C8_NoBetReportsRawEdge ==
    NoBet =>
        /\ ret.val.recommended_stake = Zero
        /\ ret.val.edge = RawEdge(args[1], RSub(args[2], One))

\* C8 as amended: whenever kelly_criterion recommends no bet the stake is 0; the
\* reported edge is the raw edge b p - (1 - p) when 0 < p < 1 and is 0 when
\* p <= 0 or p >= 1; every call with p <= 0, p >= 1 or b <= 0 recommends no bet,
\* and for p = 0.4, d = 1.5 the stake is 0 and the reported edge is negative.
C8_NoBetEdge ==
    /\ (KellyDone /\ (RLe(args[1], Zero) \/ RGe(args[1], One) \/ RLe(args[2], One))) => NoBet
    /\ NoBet =>
          /\ ret.val.recommended_stake = Zero
          /\ ret.val.recommended_fraction = Zero
          /\ (RGt(args[1], Zero) /\ RLt(args[1], One))
                => ret.val.edge = RawEdge(args[1], RSub(args[2], One))
          /\ (RLe(args[1], Zero) \/ RGe(args[1], One)) => ret.val.edge = Zero
    /\ (KellyDone /\ args[1] = Rat(4, 10) /\ args[2] = Rat(15, 10)) =>
          /\ ret.val.recommended_stake = Zero
          /\ RLt(ret.val.edge, Zero)

\* p = 0.4 at decimal odds 1.5: no bet, with the raw edge -0.4 reported.
C8_Witness ==
    /\ NoBet
    /\ args[1] = Rat(2, 5)
    /\ args[2] = Rat(3, 2)
    /\ ret.val.recommended_stake = Zero
    /\ ret.val.edge = Rat(-2, 5)

\* The sum of the recommended fractions of a batch.
TotalFraction(batch) == RSum([i \in 1..Len(batch) |-> batch[i].recommended_fraction])

\* C9: scale_exposure returns the recommended stakes unchanged when the fractions
\* sum to at most max_total_exposure; otherwise it returns, in input order and
\* with the same length, every stake times max_total_exposure / sum of fractions
\* rounded to 2 decimals, so that no bet is dropped in favour of another and the
\* order of the stake sizes is kept.
C9_UniformScaling ==
    ScaleDone =>
        /\ ret.err = "none"
        /\ Len(ret.val) = Len(args[1])
        /\ RLe(TotalFraction(args[1]), args[3])
              => \A i \in 1..Len(args[1]) : ret.val[i] = args[1][i].recommended_stake
        /\ RGt(TotalFraction(args[1]), args[3])
              => /\ \A i \in 1..Len(args[1]) :
                       IsRounded2(ret.val[i],
                                  RDiv(RMul(args[1][i].recommended_stake, args[3]),
                                       TotalFraction(args[1])))
                 /\ \A i, j \in 1..Len(args[1]) :
                       RLe(args[1][i].recommended_stake, args[1][j].recommended_stake)
                          => RLe(ret.val[i], ret.val[j])

\* Fractions 0.1 + 0.05 + 0.025 against a cap of 0.1: stakes 100, 50 and 25 become
\* 57.14, 28.57 and 14.29.
C9_Witness ==
    /\ ScaleDone
    /\ args[3] = Rat(1, 10)
    /\ Len(args[1]) = 3
    /\ TotalFraction(args[1]) = Rat(175, 1000)
    /\ args[1][1].recommended_stake = RInt(100)
    /\ ret.val = <<Rat(5714, 100), Rat(2857, 100), Rat(1429, 100)>>

\* C10: calculate_ev returns (fair_prob * decimal_odds - 1) * 100 when fair_prob >
\* 0 and decimal_odds > 1, and exactly 0 when fair_prob <= 0 or decimal_odds <= 1;
\* fair_prob 0.55 at decimal 2.0 gives 10.0.
C10_EvFormula ==
    EvDone =>
        /\ ret.err = "none"
        /\ (RGt(args[1], Zero) /\ RGt(args[2], One))
              => RAdd(RDiv(ret.val, RInt(100)), One) = RMul(args[1], args[2])
        /\ (RLe(args[1], Zero) \/ RLe(args[2], One)) => ret.val = Zero
        /\ (args[1] = Rat(55, 100) /\ args[2] = RInt(2)) => ret.val = RInt(10)

C10_Witness ==
    /\ EvDone
    /\ args = <<Rat(11, 20), RInt(2)>>
    /\ ret.val = RInt(10)

(***************************************************************************)
(* The fair-probability aggregator and find_ev_bets applied to paired      *)
(* markets                                                                 *)
(***************************************************************************)
Quote(bookmaker, american) == Odds(bookmaker, american).val

MoneyLine(selection, odds_list) ==
    Market("nba", "Lakers @ Celtics", "moneyline", selection, <<>>, odds_list)

\* The (market, opposing market or None) pairs the inputs are built from.
PairChoices ==
    {\* pinnacle quotes both sides; mybook offers the better price on this one
     <<MoneyLine("Lakers", <<Quote("pinnacle", -110), Quote("mybook", 120)>>),
       <<MoneyLine("Celtics", <<Quote("pinnacle", -110)>>)>>>>,
     \* no opposing market
     <<MoneyLine("Lakers", <<Quote("pinnacle", -110), Quote("mybook", 120)>>), <<>>>>,
     \* no bookmaker quotes both sides
     <<MoneyLine("Lakers", <<Quote("FanDuel", 105)>>),
       <<MoneyLine("Celtics", <<Quote("pinnacle", -110)>>)>>>>,
     \* a market without quotes
     <<MoneyLine("Lakers", <<>>), <<MoneyLine("Celtics", <<Quote("pinnacle", -110)>>)>>>>,
     \* an opposing market without quotes
     <<MoneyLine("Celtics", <<Quote("pinnacle", -110)>>), <<MoneyLine("Lakers", <<>>)>>>>,
     \* FanDuel and fanduel are the same bookmaker; pinnacle is missing opposite
     <<MoneyLine("Lakers", <<Quote("FanDuel", 150), Quote("pinnacle", 100)>>),
       <<MoneyLine("Celtics", <<Quote("fanduel", -170), Quote("mybook", -110)>>)>>>>,
     \* the first pair again under other names: the same prices, so the same EV
     <<MoneyLine("Knicks", <<Quote("pinnacle", -110), Quote("mybook", 120)>>),
       <<MoneyLine("Nets", <<Quote("pinnacle", -110)>>)>>>>,
     \* two bookmakers quote both sides
     <<MoneyLine("Celtics", <<Quote("pinnacle", 100), Quote("mybook", 130)>>),
       <<MoneyLine("Lakers", <<Quote("mybook", -125), Quote("pinnacle", -105)>>)>>>>}

\* The longest list of pairs handed to find_ev_bets.
MaxPairs == 2

PairLists == UNION {[1..n -> PairChoices] : n \in 0..MaxPairs}

MinEvs == {One, RInt(8), RInt(12)}

\* The quotes the odds lists handed to best_odds are built from.
QuoteChoices ==
    {Quote("FanDuel", 105), Quote("pinnacle", 110), Quote("mybook", 110),
     Quote("pinnacle", -110), Quote("mybook", -250)}

\* The longest odds list handed to best_odds.
MaxQuotes == 3

OddsLists == UNION {[1..n -> QuoteChoices] : n \in 0..MaxQuotes}

DefaultBankroll == RInt(1000)
DefaultKellyFraction == Rat(25, 100)

\* One pair sized at full Kelly, where the per-bet cap binds.
FullKellyArgs ==
    {<<<<pair>>, DefaultBankroll, One, One, m>> : pair \in PairChoices, m \in DevigMethodNames}

InitEv ==
    /\ pc = "ready"
    /\ ret = NoResult
    /\ bets_file = NoFile
    /\ \/ /\ fn = "calculate_fair_probability"
          /\ args \in {<<pair[1], pair[2], m>> : pair \in PairChoices, m \in MethodArgs}
       \/ /\ fn = "find_ev_bets"
          /\ args \in PairLists \X {DefaultBankroll} \X MinEvs \X {DefaultKellyFraction}
                         \X MethodArgs
       \/ /\ fn = "find_ev_bets"
          /\ args \in FullKellyArgs
       \/ /\ fn = "best_odds"
          /\ args \in {<<MoneyLine("Lakers", odds_list)>> : odds_list \in OddsLists}

CallFairProbability ==
    /\ pc = "ready"
    /\ fn = "calculate_fair_probability"
    /\ ret' = calculate_fair_probability(args[1], args[2], args[3])
    /\ pc' = "done"
    /\ UNCHANGED <<fn, args, bets_file>>

CallFindEvBets ==
    /\ pc = "ready"
    /\ fn = "find_ev_bets"
    /\ ret' = find_ev_bets(args[1], args[2], args[3], args[4], args[5])
    /\ pc' = "done"
    /\ UNCHANGED <<fn, args, bets_file>>

CallBestOdds ==
    /\ pc = "ready"
    /\ fn = "best_odds"
    /\ ret' = Return(best_odds(args[1]))
    /\ pc' = "done"
    /\ UNCHANGED <<fn, args, bets_file>>

NextEv == CallFairProbability \/ CallFindEvBets \/ CallBestOdds

SpecEv == InitEv /\ [][NextEv]_vars

FairDone == fn = "calculate_fair_probability" /\ pc = "done"
FindDone == fn = "find_ev_bets" /\ pc = "done"
BestDone == fn = "best_odds" /\ pc = "done"

\* C3 as stated: with an unrecognised method name, calculate_fair_probability and
\* find_ev_bets fail with the invalid-method error for every input that holds a
\* market with at least one quote, whether or not it has an opposing market or a
\* bookmaker in common with it.
C3_UnknownMethodAlwaysRaises ==
    /\ (/\ FairDone
        /\ args[3] \notin {"multiplicative", "additive", "power", "shin", "weighted"}
        /\ Len(args[1].odds_list) >= 1)
       => ret.err = "ValueError"
    /\ (/\ FindDone
        /\ args[5] \notin {"multiplicative", "additive", "power", "shin", "weighted"}
        /\ \E i \in 1..Len(args[1]) : Len(args[1][i][1].odds_list) >= 1)
       => ret.err = "ValueError"

\* C11: best_odds returns None for an empty odds list and otherwise the entry of
\* maximum decimal price, the first one in list order when several tie.
C11_BestOddsFirstMax ==
    BestDone =>
        /\ ret.err = "none"
        /\ Len(args[1].odds_list) = 0 => ret.val = <<>>
        /\ Len(args[1].odds_list) > 0 =>
              \E i \in 1..Len(args[1].odds_list) :
                 /\ ret.val = <<args[1].odds_list[i]>>
                 /\ \A j \in 1..Len(args[1].odds_list) :
                       RLe(args[1].odds_list[j].decimal, args[1].odds_list[i].decimal)
                 /\ \A j \in 1..(i - 1) :
                       RLt(args[1].odds_list[j].decimal, args[1].odds_list[i].decimal)

\* pinnacle and mybook both quote +110 behind a lower FanDuel price: pinnacle, the
\* first of the two, is returned.
C11_Witness ==
    /\ BestDone
    /\ args[1].odds_list
          = <<Quote("FanDuel", 105), Quote("pinnacle", 110), Quote("mybook", 110)>>
    /\ ret.val = <<Quote("pinnacle", 110)>>

\* The sharpness weight of the bookmakers of the model: pinnacle 1.0, FanDuel
\* 0.6, and 0.5 for mybook, which the weight table does not list.
SharpnessWeight(bookmaker) ==
    CASE bookmaker = "pinnacle" -> One
      [] bookmaker \in {"FanDuel", "fanduel"} -> Rat(6, 10)
      [] OTHER -> Rat(1, 2)

\* Bookmaker names are matched without regard to case.
SameBook(a, b) ==
    \/ a = b
    \/ {a, b} = {"FanDuel", "fanduel"}
    \/ {a, b} = {"Pinnacle", "pinnacle"}

\* The quotes of market whose bookmaker also quotes opposing.
QuotedOnBothSides(market, opposing) ==
    {i \in 1..Len(market.odds_list) :
        \E j \in 1..Len(opposing.odds_list) :
           SameBook(opposing.odds_list[j].bookmaker, market.odds_list[i].bookmaker)}

\* The implied probability the bookmaker of quote i gives the opposing side.
OpposingImplied(market, opposing, i) ==
    opposing.odds_list[CHOOSE j \in 1..Len(opposing.odds_list) :
        SameBook(opposing.odds_list[j].bookmaker, market.odds_list[i].bookmaker)].implied_prob

\* f_b: the first component of devig of the bookmaker's two implied probabilities.
FirstFair(market, opposing, i, method) ==
    QuantLarge(devig(<<market.odds_list[i].implied_prob,
                       OpposingImplied(market, opposing, i)>>, method).val.fair_probs[1])

\* sum of w_b f_b over the bookmakers that quote both sides.
PairedWeightedSum(market, opposing, method) ==
    RSum(SeqMap(LAMBDA i :
                   IF i \in QuotedOnBothSides(market, opposing)
                   THEN RMul(SharpnessWeight(market.odds_list[i].bookmaker),
                             FirstFair(market, opposing, i, method))
                   ELSE Zero,
                Len(market.odds_list)))

\* sum of w_b over the bookmakers that quote both sides.
PairedWeight(market, opposing) ==
    RSum([i \in 1..Len(market.odds_list) |->
            IF i \in QuotedOnBothSides(market, opposing)
            THEN SharpnessWeight(market.odds_list[i].bookmaker)
            ELSE Zero])

\* The case of C12: a market with quotes, an opposing market with quotes and a
\* recognised method.
PairedCase ==
    /\ FairDone
    /\ args[3] \in {"multiplicative", "additive", "power", "shin", "weighted"}
    /\ Len(args[1].odds_list) > 0
    /\ args[2] # <<>>
    /\ Len(args[2][1].odds_list) > 0

\* C12: with a non-empty opposing market calculate_fair_probability is the sum of
\* w_b f_b over the sum of w_b, taken over exactly the bookmakers that quote both
\* markets, f_b the first component of devig of the bookmaker's two implied
\* probabilities and w_b its sharpness weight (0.5 outside the table); it is 0
\* when no bookmaker quotes both.
C12_PairedWeightedAverage ==
    PairedCase =>
        /\ ret.err = "none"
        /\ QuotedOnBothSides(args[1], args[2][1]) = {} => ret.val = Zero
        /\ QuotedOnBothSides(args[1], args[2][1]) # {} =>
              ret.val = Bind(PairedWeightedSum(args[1], args[2][1], args[3]), LAMBDA sum_wf :
                        Bind(PairedWeight(args[1], args[2][1]), LAMBDA sum_w :
                            RDiv(sum_wf, sum_w)))

\* FanDuel quotes +150 against its own -170 (listed as fanduel); pinnacle quotes
\* +100 but not the opposing side: the result is FanDuel's 0.4 / (0.4 + 17/27).
C12_Witness ==
    /\ PairedCase
    /\ args[3] = "multiplicative"
    /\ args[1].odds_list = <<Quote("FanDuel", 150), Quote("pinnacle", 100)>>
    /\ QuotedOnBothSides(args[1], args[2][1]) = {1}
    /\ ret.val = Rat(54, 139)

\* The case of C13: a market with quotes and no opposing market, or one without
\* quotes; any method name.
SingleSideCase ==
    /\ FairDone
    /\ Len(args[1].odds_list) > 0
    /\ (args[2] = <<>> \/ Len(args[2][1].odds_list) = 0)

\* sum of w_b * implied_b / 1.025 over the quotes of market.
SingleSideWeightedSum(market) ==
    RSum(SeqMap(LAMBDA i :
                   RMul(SharpnessWeight(market.odds_list[i].bookmaker),
                        RDiv(market.odds_list[i].implied_prob, Rat(1025, 1000))),
                Len(market.odds_list)))

\* sum of w_b over the quotes of market.
SingleSideWeight(market) ==
    RSum(SeqMap(LAMBDA i : SharpnessWeight(market.odds_list[i].bookmaker),
                Len(market.odds_list)))

\* C13: with quotes and no opposing market (None, or one with an empty odds list)
\* calculate_fair_probability is the sharpness-weighted average over the market's
\* bookmakers of implied_prob / 1.025, whatever the method argument is.
C13_SingleSideEstimate ==
    SingleSideCase =>
        /\ ret.err = "none"
        /\ ret.val = Bind(SingleSideWeightedSum(args[1]), LAMBDA sum_wf :
                     Bind(SingleSideWeight(args[1]), LAMBDA sum_w :
                         RDiv(sum_wf, sum_w)))

\* pinnacle -110 (weight 1.0) and mybook +120 (weight 0.5) without an opposing
\* market, method shin: (11/21 + 0.5 * 5/11) / 1.025 / 1.5.
C13_Witness ==
    /\ SingleSideCase
    /\ args[2] = <<>>
    /\ args[3] = "shin"
    /\ args[1].odds_list = <<Quote("pinnacle", -110), Quote("mybook", 120)>>
    /\ ret.val = Rat(13880, 28413)

\* The bets find_ev_bets returns for pair i of its list when called on that pair
\* alone.
BetsOfPairAlone(i) ==
    find_ev_bets(<<args[1][i]>>, args[2], args[3], args[4], args[5])

\* The case of C14: find_ev_bets called with a recognised method.
FindValidCase ==
    /\ FindDone
    /\ args[5] \in {"multiplicative", "additive", "power", "shin", "weighted"}

\* C14: with a recognised method find_ev_bets returns a list and raises nothing;
\* a pair whose market has no quotes yields no bet, and the list holds exactly the
\* bets each pair yields on its own, so that no pair keeps another from being
\* evaluated.
C14_BatchNeverFails ==
    FindValidCase =>
        /\ ret.err = "none"
        /\ \A i \in 1..Len(args[1]) :
              Bind(BetsOfPairAlone(i), LAMBDA alone :
                  /\ alone.err = "none"
                  /\ Len(args[1][i][1].odds_list) = 0 => alone.val = <<>>
                  /\ \A k \in 1..Len(alone.val) :
                        \E j \in 1..Len(ret.val) : ret.val[j] = alone.val[k])
        /\ \A j \in 1..Len(ret.val) :
              \E i \in 1..Len(args[1]) :
                 Bind(BetsOfPairAlone(i), LAMBDA alone : alone.val = <<ret.val[j]>>)
        /\ Len(ret.val) <= Len(args[1])

\* A market without quotes followed by a market priced +120 at mybook against a
\* fair 0.5: the first pair is skipped and the second gives a bet of EV 10%.
C14_Witness ==
    /\ FindValidCase
    /\ Len(args[1]) = 2
    /\ Len(args[1][1][1].odds_list) = 0
    /\ args[1][2][1].selection = "Lakers"
    /\ args[3] = One
    /\ Len(ret.val) = 1
    /\ ret.val[1].ev_percent = RInt(10)
    /\ ret.val[1].best_odds.bookmaker = "mybook"

\* pos assigns the returned bets to distinct pairs of the input list, each bet to
\* a pair that yields it, and bets of equal ev_percent in the order of their pairs.
InInputOrder(pos, alone) ==
    /\ \A j \in 1..Len(ret.val) : alone[pos[j]].val = <<ret.val[j]>>
    /\ \A i, j \in 1..Len(ret.val) :
          i < j =>
             /\ pos[i] # pos[j]
             /\ ret.val[i].ev_percent = ret.val[j].ev_percent => pos[i] < pos[j]

\* C15: every Bet find_ev_bets returns has ev_percent >= min_ev, and the list is
\* in non-increasing order of ev_percent, bets of equal ev_percent in the order of
\* their pairs in the input.
C15_RankedAboveMinEv ==
    (FindDone /\ ret.err = "none") =>
        /\ \A j \in 1..Len(ret.val) : RGe(ret.val[j].ev_percent, args[3])
        /\ \A i, j \in 1..Len(ret.val) :
              i < j => RGe(ret.val[i].ev_percent, ret.val[j].ev_percent)
        /\ Bind(SeqMap(LAMBDA i : BetsOfPairAlone(i), Len(args[1])), LAMBDA alone :
               \E pos \in [1..Len(ret.val) -> 1..Len(args[1])] : InInputOrder(pos, alone))

\* Two markets of the same EV, 10%: they are returned in input order.
C15_Witness ==
    /\ FindDone
    /\ ret.err = "none"
    /\ Len(ret.val) = 2
    /\ ret.val[1].ev_percent = RInt(10)
    /\ ret.val[2].ev_percent = RInt(10)
    /\ ret.val[1].market.selection = "Lakers"
    /\ ret.val[2].market.selection = "Knicks"

\* The better bet comes second in the input and first in the result.
C15_Reordered ==
    /\ FindDone
    /\ ret.err = "none"
    /\ Len(ret.val) = 2
    /\ args[1][1][2] = <<>>
    /\ ret.val[1].market = args[1][2][1]
    /\ RGt(ret.val[1].ev_percent, ret.val[2].ev_percent)

(***************************************************************************)
(* Arbitrage detection applied to lists of markets                         *)
(***************************************************************************)
\* The two sides of "LAL @ BOS": best prices +110 (2.10) and +105 (2.05).
ArbLakers ==
    Market("nba", "LAL @ BOS", "h2h", "Lakers", <<>>,
           <<Quote("pinnacle", 110), Quote("mybook", 100)>>)
ArbCeltics ==
    Market("nba", "LAL @ BOS", "h2h", "Celtics", <<>>,
           <<Quote("pinnacle", -120), Quote("FanDuel", 105)>>)

\* The two sides of "NYK @ BKN": +102 and +101, a margin of 0.75%.
ArbKnicks == Market("nba", "NYK @ BKN", "h2h", "Knicks", <<>>, <<Quote("pinnacle", 102)>>)
ArbNets == Market("nba", "NYK @ BKN", "h2h", "Nets", <<>>, <<Quote("mybook", 101)>>)

\* A total at the line 8.5, and a market of another type without a line whose
\* type ends in "_8.5".
ArbUnder ==
    Market("nba", "LAL @ BOS", "totals", "Under", <<Rat(17, 2)>>, <<Quote("mybook", -110)>>)
ArbOverOther ==
    Market("nba", "LAL @ BOS", "totals_8.5", "Over", <<>>, <<Quote("FanDuel", 130)>>)

\* A market without quotes, and a three-way market at +210 on every outcome.
ArbDraw == Market("nba", "LAL @ BOS", "h2h", "Draw", <<>>, <<>>)
ArbHome == Market("soccer", "ARS v CHE", "h2h", "Arsenal", <<>>, <<Quote("pinnacle", 210)>>)
ArbTie == Market("soccer", "ARS v CHE", "h2h", "Tie", <<>>, <<Quote("mybook", 210)>>)
ArbAway == Market("soccer", "ARS v CHE", "h2h", "Chelsea", <<>>, <<Quote("FanDuel", 210)>>)

\* The markets the lists handed to find_arbitrage are built from.
ArbMarkets == {ArbLakers, ArbCeltics, ArbKnicks, ArbNets, ArbUnder, ArbOverOther}

\* The longest list of markets handed to find_arbitrage.
MaxMarkets == 4

MarketLists == UNION {[1..n -> ArbMarkets] : n \in 0..MaxMarkets}

\* The markets the groups handed to _check_arbitrage are built from.
GroupMarkets == {ArbLakers, ArbCeltics, ArbKnicks, ArbNets, ArbDraw, ArbHome, ArbTie, ArbAway}

\* The largest group handed to _check_arbitrage.
MaxGroup == 3

Groups == UNION {[1..n -> GroupMarkets] : n \in 0..MaxGroup}

MinProfits == {Rat(1, 2), One}
GroupMinProfits == {Zero, Rat(1, 2), RInt(4)}
TotalStakes == {RInt(100), RInt(1000)}

\* The groups whose opportunities are handed to calculate_arb_profit.
ProfitGroups ==
    {<<ArbLakers, ArbCeltics>>, <<ArbCeltics, ArbLakers>>, <<ArbKnicks, ArbNets>>,
     <<ArbHome, ArbTie, ArbAway>>, <<ArbLakers, ArbTie>>}

\* The (stakes, selections) of the opportunities found in those groups.
ProfitArgs ==
    UNION {Bind(_check_arbitrage(g, Zero, t), LAMBDA found :
               IF found.err = "none" /\ found.val # <<>>
               THEN {<<found.val[1].stakes, found.val[1].selections>>}
               ELSE {}) : g \in ProfitGroups, t \in TotalStakes}

InitArb ==
    /\ pc = "ready"
    /\ ret = NoResult
    /\ bets_file = NoFile
    /\ \/ fn = "_group_by_event" /\ args \in {<<markets>> : markets \in MarketLists}
       \/ fn = "_check_arbitrage" /\ args \in Groups \X GroupMinProfits \X TotalStakes
       \/ fn = "find_arbitrage" /\ args \in MarketLists \X MinProfits \X {RInt(1000)}
       \/ /\ fn = "calculate_arb_profit"
          /\ args \in ProfitArgs

CallGroupByEvent ==
    /\ pc = "ready"
    /\ fn = "_group_by_event"
    /\ ret' = Return(_group_by_event(args[1]))
    /\ pc' = "done"
    /\ UNCHANGED <<fn, args, bets_file>>

CallCheckArbitrage ==
    /\ pc = "ready"
    /\ fn = "_check_arbitrage"
    /\ ret' = _check_arbitrage(args[1], args[2], args[3])
    /\ pc' = "done"
    /\ UNCHANGED <<fn, args, bets_file>>

CallFindArbitrage ==
    /\ pc = "ready"
    /\ fn = "find_arbitrage"
    /\ ret' = find_arbitrage(args[1], args[2], args[3])
    /\ pc' = "done"
    /\ UNCHANGED <<fn, args, bets_file>>

CallArbProfit ==
    /\ pc = "ready"
    /\ fn = "calculate_arb_profit"
    /\ ret' = Return(calculate_arb_profit(args[1], args[2]))
    /\ pc' = "done"
    /\ UNCHANGED <<fn, args, bets_file>>

NextArb == CallGroupByEvent \/ CallCheckArbitrage \/ CallFindArbitrage \/ CallArbProfit

SpecArb == InitArb /\ [][NextArb]_vars

GroupDone == fn = "_group_by_event" /\ pc = "done"
CheckDone == fn = "_check_arbitrage" /\ pc = "done"
FindArbDone == fn = "find_arbitrage" /\ pc = "done"
ArbProfitDone == fn = "calculate_arb_profit" /\ pc = "done"

\* Markets a and b are in one group of the result of _group_by_event.
InOneGroup(a, b) ==
    \E k \in 1..Len(ret.val) :
       /\ \E h \in 1..Len(ret.val[k][2]) : ret.val[k][2][h] = a
       /\ \E h \in 1..Len(ret.val[k][2]) : ret.val[k][2][h] = b

\* C16 as stated: two markets are put into the same outcome group if and only if
\* they have the same event, the same market type and the same point, and an
\* opportunity never combines markets that differ in one of the three.
C16_GroupedByEventTypePoint ==
    /\ GroupDone =>
          \A i, j \in 1..Len(args[1]) :
             InOneGroup(args[1][i], args[1][j])
                <=> /\ args[1][i].event = args[1][j].event
                    /\ args[1][i].market_type = args[1][j].market_type
                    /\ args[1][i].point = args[1][j].point
    /\ (FindArbDone /\ ret.err = "none") =>
          \A k \in 1..Len(ret.val) :
             \A i \in 1..Len(args[1]) :
                (\E h \in 1..Len(ret.val[k].selections) :
                    ret.val[k].selections[h][1] = args[1][i].selection)
                => /\ args[1][i].event = ret.val[k].event
                   /\ args[1][i].market_type = ret.val[k].market_type

\* The implied probability of the best quote of a market with quotes: that of a
\* quote of maximum decimal price.
BestImplied(market) ==
    market.odds_list[CHOOSE i \in 1..Len(market.odds_list) :
        \A j \in 1..Len(market.odds_list) :
           RLe(market.odds_list[j].decimal, market.odds_list[i].decimal)].implied_prob

\* S: the sum of the best quotes' implied probabilities over a group whose
\* markets all have quotes.
BestImpliedSum(group) == RSum(SeqMap(LAMBDA i : BestImplied(group[i]), Len(group)))

\* (1/S - 1) * 100
ProfitPercentOf(total) == RMul(RSub(RDiv(One, total), One), RInt(100))

\* The condition of C17 for a group to yield an opportunity.
ArbitrageExists(group, min_profit) ==
    /\ Len(group) >= 2
    /\ \A i \in 1..Len(group) : Len(group[i].odds_list) > 0
    /\ Bind(BestImpliedSum(group), LAMBDA total :
           RLt(total, One) /\ RGe(ProfitPercentOf(total), min_profit))

\* C17: _check_arbitrage reports an opportunity exactly when the group has at
\* least 2 markets, each with a quote, S < 1 and (1/S - 1) * 100 >= min_profit;
\* then profit_percent is (1/S - 1) * 100 and total_implied is S.  An empty or
\* singleton group yields None and no error.
C17_ArbitrageCondition ==
    CheckDone =>
        /\ ret.err = "none"
        /\ ret.val # <<>> <=> ArbitrageExists(args[1], args[2])
        /\ ret.val # <<>> =>
              /\ ret.val[1].total_implied = BestImpliedSum(args[1])
              /\ ret.val[1].profit_percent = ProfitPercentOf(BestImpliedSum(args[1]))
        /\ Len(args[1]) < 2 => ret.val = <<>>

\* The best prices of Lakers and Celtics are +110 and +105: S = 10/21 + 20/41 and
\* the profit is 310/83 %, about 3.73.
C17_Witness ==
    /\ CheckDone
    /\ args[1] = <<ArbLakers, ArbCeltics>>
    /\ args[2] = Rat(1, 2)
    /\ ret.val # <<>>
    /\ ret.val[1].total_implied = Rat(830, 861)
    /\ ret.val[1].profit_percent = Rat(310, 83)

\* The sign of a/b - c/d for a, c >= 0 and b, d > 0, by comparing the continued
\* fractions: no product is formed, so fine denominators cannot overflow.
RECURSIVE CompareFractions(_, _, _, _)
CompareFractions(a, b, c, d) ==
    IF a \div b # c \div d THEN (IF a \div b < c \div d THEN -1 ELSE 1)
    ELSE IF a % b = 0 /\ c % d = 0 THEN 0
    ELSE IF a % b = 0 THEN -1
    ELSE IF c % d = 0 THEN 1
    ELSE -CompareFractions(b, a % b, d, c % d)

\* x <= y for x, y >= 0.
NonNegLe(x, y) == CompareFractions(x[1], x[2], y[1], y[2]) <= 0

\* An opportunity was reported by _check_arbitrage.
Reported == CheckDone /\ ret.err = "none" /\ ret.val # <<>>

\* The sum of the reported stakes of an opportunity.
StakedTotal(stakes) == RSum(SeqMap(LAMBDA i : stakes[i][3], Len(stakes)))

\* sum of 1 / decimal_j over the selections of an opportunity.
InverseSum(selections) ==
    RSum(SeqMap(LAMBDA j : RDiv(One, selections[j][2].decimal), Len(selections)))

\* total_stake / (decimal_i * sum of 1 / decimal_j), not rounded.
ExactStake(selections, i, total_stake) ==
    RDiv(total_stake, RMul(selections[i][2].decimal, InverseSum(selections)))

\* C18 as stated: the stakes of a reported opportunity sum to total_stake and pay
\* out the same amount stake_i * decimal_i for every outcome, more than the total
\* staked.
C18_StakesEqualPayout ==
    Reported =>
        /\ StakedTotal(ret.val[1].stakes) = args[3]
        /\ \A i, j \in 1..Len(ret.val[1].stakes) :
              RMul(ret.val[1].stakes[i][3], ret.val[1].selections[i][2].decimal)
                 = RMul(ret.val[1].stakes[j][3], ret.val[1].selections[j][2].decimal)
        /\ \A i \in 1..Len(ret.val[1].stakes) :
              RGt(RMul(ret.val[1].stakes[i][3], ret.val[1].selections[i][2].decimal),
                  StakedTotal(ret.val[1].stakes))

\* C18 as amended: every reported stake is total_stake / (decimal_i * sum of
\* 1 / decimal_j) rounded to 2 decimals.  The unrounded values sum to total_stake
\* and pay out the same total_stake / sum of 1 / decimal_j, more than total_stake.
\* The reported stakes sum to total_stake within half a cent per outcome, and
\* their payouts are within decimal_i half cents of the common payout; a payout
\* exceeds the amount staked when the unrounded profit exceeds (decimal_i + n)
\* half cents.  calculate_arb_profit returns stake_i * decimal_i minus the sum of
\* the stakes, rounded to 2 decimals.
C18_StakesRounded ==
    /\ Reported =>
          Bind(ret.val[1].selections, LAMBDA selections :
          Bind(RDiv(args[3], InverseSum(selections)), LAMBDA payout :
          Bind(StakedTotal(ret.val[1].stakes), LAMBDA staked :
              /\ Len(ret.val[1].stakes) = Len(selections)
              /\ RSum(SeqMap(LAMBDA i : ExactStake(selections, i, args[3]),
                             Len(selections))) = args[3]
              /\ RGt(payout, args[3])
              /\ RLe(RAbs(RSub(staked, args[3])), Rat(Len(selections), 200))
              /\ \A i \in 1..Len(selections) :
                    /\ ret.val[1].stakes[i][1] = selections[i][1]
                    /\ ret.val[1].stakes[i][2] = selections[i][2].bookmaker
                    /\ IsRounded2(ret.val[1].stakes[i][3],
                                  ExactStake(selections, i, args[3]))
                    /\ RMul(ExactStake(selections, i, args[3]), selections[i][2].decimal)
                          = payout
                    /\ NonNegLe(RAbs(RSub(RMul(ret.val[1].stakes[i][3],
                                               selections[i][2].decimal),
                                          payout)),
                                RDiv(selections[i][2].decimal, RInt(200)))
                    /\ ~NonNegLe(RSub(payout, args[3]),
                                 RDiv(RAdd(selections[i][2].decimal, RInt(Len(selections))),
                                      RInt(200)))
                          => RGt(RMul(ret.val[1].stakes[i][3], selections[i][2].decimal),
                                 staked))))
    /\ ArbProfitDone =>
          \A i \in 1..Len(args[2]) :
             IsRounded2(ret.val[args[2][i][1]],
                        RSub(RMul(args[1][i][3], args[2][i][2].decimal),
                             StakedTotal(args[1])))

\* Three outcomes at +210 and a total stake of 1000: 333.33 on each, 999.99 in
\* all.
C18_Witness ==
    /\ Reported
    /\ args[1] = <<ArbHome, ArbTie, ArbAway>>
    /\ args[3] = RInt(1000)
    /\ ret.val[1].stakes[1][3] = Rat(33333, 100)
    /\ StakedTotal(ret.val[1].stakes) = Rat(99999, 100)

\* x is within tol of y.
Near(x, y, tol) == RLe(RAbs(RSub(x, y)), tol)

\* The example of C19: the two sides of one event, best decimal odds 2.10 and
\* 2.05, total_stake 1000.
ExampleCase ==
    /\ FindArbDone
    /\ args[1] = <<ArbLakers, ArbCeltics>>
    /\ args[3] = RInt(1000)
    /\ ret.err = "none"

\* C19 as stated: the example is reported with a profit of about 3.74%, stakes of
\* about 486.62 and 513.38, and a payout of about 1022 on either outcome.
C19_ExampleAsStated ==
    ExampleCase =>
        /\ Len(ret.val) = 1
        /\ Near(ret.val[1].profit_percent, Rat(374, 100), Rat(1, 100))
        /\ Near(ret.val[1].stakes[1][3], Rat(48662, 100), Rat(1, 200))
        /\ Near(ret.val[1].stakes[2][3], Rat(51338, 100), Rat(1, 200))
        /\ \A i \in 1..2 :
              Near(RMul(ret.val[1].stakes[i][3], ret.val[1].selections[i][2].decimal),
                   RInt(1022), Rat(1, 2))

\* C19 as amended: the example is reported with total_implied 830/861 (0.964), a
\* profit of 310/83 % (3.73), stakes of 493.98 on the first outcome and 506.02 on
\* the second, and a payout of 1037.35 within a cent on either outcome.
C19_Example ==
    ExampleCase =>
        /\ Len(ret.val) = 1
        /\ ret.val[1].total_implied = Rat(830, 861)
        /\ ret.val[1].profit_percent = Rat(310, 83)
        /\ Near(ret.val[1].profit_percent, Rat(373, 100), Rat(1, 200))
        /\ ret.val[1].stakes = <<<<"Lakers", "pinnacle", Rat(49398, 100)>>,
                                 <<"Celtics", "FanDuel", Rat(50602, 100)>>>>
        /\ \A i \in 1..2 :
              Near(RMul(ret.val[1].stakes[i][3], ret.val[1].selections[i][2].decimal),
                   Rat(103735, 100), Rat(1, 100))

C19_Witness ==
    /\ ExampleCase
    /\ args[2] = Rat(1, 2)
    /\ Len(ret.val) = 1
    /\ ret.val[1].selections[1][2].decimal = Rat(21, 10)
    /\ ret.val[1].selections[2][2].decimal = Rat(41, 20)
    /\ ret.val[1].stakes[1][3] = Rat(49398, 100)

\* The (event, market_type, point) keys of a list of markets.
GroupKeys(markets) ==
    {<<markets[i].event, markets[i].market_type, markets[i].point>> : i \in 1..Len(markets)}

\* The selections of an opportunity.
SelectionsOf(arb) == {arb.selections[h][1] : h \in 1..Len(arb.selections)}

\* C20: find_arbitrage returns at most one opportunity per outcome group: no more
\* opportunities than groups, and no market in two of them; and the list is in
\* non-increasing order of profit_percent.
C20_OnePerGroupSorted ==
    FindArbDone =>
        /\ ret.err = "none"
        /\ Len(ret.val) <= Cardinality(GroupKeys(args[1]))
        /\ \A i, j \in 1..Len(ret.val) :
              i < j =>
                 /\ SelectionsOf(ret.val[i]) \cap SelectionsOf(ret.val[j]) = {}
                 /\ RGe(ret.val[i].profit_percent, ret.val[j].profit_percent)

\* The 0.75% opportunity comes first in the input and second in the result.
C20_Witness ==
    /\ FindArbDone
    /\ args[1] = <<ArbKnicks, ArbNets, ArbLakers, ArbCeltics>>
    /\ args[2] = Rat(1, 2)
    /\ Len(ret.val) = 2
    /\ ret.val[1].event = "LAL @ BOS"
    /\ ret.val[2].event = "NYK @ BKN"
    /\ ret.val[2].profit_percent = Rat(302, 403)

(***************************************************************************)
(* The middle detector applied to lists of spread markets                  *)
(***************************************************************************)
Spread(selection, point, odds_list) ==
    Market("nba", "LAL @ BOS", "spreads", selection, point, odds_list)

\* Lakers -2.5 against Celtics +3.5 is a middle of one point; against Celtics
\* +2.5 the lines meet; the others share a selection, a sign, or lack a line or
\* a quote.
SpreadFav == Spread("Lakers", <<Rat(-5, 2)>>, <<Quote("pinnacle", -110), Quote("mybook", -105)>>)
SpreadDog == Spread("Celtics", <<Rat(7, 2)>>, <<Quote("FanDuel", -112), Quote("mybook", -108)>>)
SpreadDogTight == Spread("Celtics", <<Rat(5, 2)>>, <<Quote("pinnacle", -110)>>)
SpreadDogSame == Spread("Lakers", <<Rat(7, 2)>>, <<Quote("pinnacle", -140)>>)
SpreadFavOther == Spread("Celtics", <<Rat(-5, 2)>>, <<Quote("mybook", 120)>>)
SpreadNoQuote == Spread("Celtics", <<Rat(7, 2)>>, <<>>)
SpreadNoPoint == Spread("Celtics", <<>>, <<Quote("mybook", -110)>>)
SpreadNoPointFav == Spread("Lakers", <<>>, <<Quote("pinnacle", -110)>>)

SpreadMarkets ==
    {SpreadFav, SpreadDog, SpreadDogTight, SpreadDogSame, SpreadFavOther, SpreadNoQuote,
     SpreadNoPoint, SpreadNoPointFav}

\* The longest list of markets handed to find_middles.
MaxSpreads == 3

SpreadLists == UNION {[1..n -> SpreadMarkets] : n \in 0..MaxSpreads}

MinGaps == {Rat(1, 2), One}

InitMiddles ==
    /\ pc = "ready"
    /\ ret = NoResult
    /\ bets_file = NoFile
    /\ fn = "find_middles"
    /\ args \in SpreadLists \X MinGaps

CallFindMiddles ==
    /\ pc = "ready"
    /\ fn = "find_middles"
    /\ ret' = Return(find_middles(args[1], args[2]))
    /\ pc' = "done"
    /\ UNCHANGED <<fn, args, bets_file>>

NextMiddles == CallFindMiddles

SpecMiddles == InitMiddles /\ [][NextMiddles]_vars

MiddlesDone == fn = "find_middles" /\ pc = "done"

\* fav and dog are a middle: the same event and market type, different
\* selections, a negative and a positive line that leave at least min_gap, and a
\* quote on either side.
IsMiddle(fav, dog, min_gap) ==
    /\ fav.event = dog.event
    /\ fav.market_type = dog.market_type
    /\ fav.selection # dog.selection
    /\ fav.point # <<>> /\ dog.point # <<>>
    /\ RLt(fav.point[1], Zero) /\ RGt(dog.point[1], Zero)
    /\ Len(fav.odds_list) > 0 /\ Len(dog.odds_list) > 0
    /\ RGe(RAdd(fav.point[1], dog.point[1]), min_gap)

\* The pairs of positions of the input list that hold a middle.
MiddlePositions ==
    {p \in (1..Len(args[1])) \X (1..Len(args[1])) :
        /\ p[1] < p[2]
        /\ \/ IsMiddle(args[1][p[1]], args[1][p[2]], args[2])
           \/ IsMiddle(args[1][p[2]], args[1][p[1]], args[2])}

\* middle is the report of markets a and b with their best quotes.
ReportsPair(middle, a, b) ==
    /\ middle.event = a.event
    /\ middle.book1 = best_odds(a)[1].bookmaker
    /\ middle.odds1 = best_odds(a)[1].american
    /\ middle.book2 = best_odds(b)[1].bookmaker
    /\ middle.odds2 = best_odds(b)[1].american
    /\ middle.middle_size = RAdd(a.point[1], b.point[1])

\* C21: find_middles reports every pair of spread markets of one event and
\* market type with different selections, a negative and a positive line that
\* leave at least min_gap, and a quote on either side; each such pair once, with
\* the best quote of either side, and without a stake plan.
C21_MiddlesReported ==
    MiddlesDone =>
        /\ ret.err = "none"
        /\ Len(ret.val) = Cardinality(MiddlePositions)
        /\ \A p \in MiddlePositions :
              \E k \in 1..Len(ret.val) :
                 \/ ReportsPair(ret.val[k], args[1][p[1]], args[1][p[2]])
                 \/ ReportsPair(ret.val[k], args[1][p[2]], args[1][p[1]])
        /\ \A k \in 1..Len(ret.val) : "stakes" \notin DOMAIN ret.val[k]

\* What find_middles does on these lists: the markets of a group share the line
\* that is part of its key, so no group holds a negative and a positive line.
C21_NothingReported == MiddlesDone => ret = Return(<<>>)

\* Lakers -2.5 and Celtics +3.5 with min_gap 0.5 have been scanned.
C21_MiddleScanned ==
    /\ MiddlesDone
    /\ args = <<<<SpreadFav, SpreadDog>>, Rat(1, 2)>>
    /\ MiddlePositions = {<<1, 2>>}

(***************************************************************************)
(* Numeric edge cases of the de-vig engine                                 *)
(***************************************************************************)
\* The case of C22: a recognised method applied to implied probabilities whose
\* total is zero.
ZeroTotalCase ==
    /\ fn = "devig"
    /\ pc = "done"
    /\ args[2] \in {"multiplicative", "additive", "power", "shin", "weighted"}
    /\ RSum(args[1]) = Zero

\* C22: every de-vig method yields a result, and no division error, for implied
\* probabilities whose total is zero.
C22_ZeroTotalNoDivisionError ==
    ZeroTotalCase =>
        /\ ret.err = "none"
        /\ Len(ret.val.fair_probs) = Len(args[1])

\* What the methods do on [0, 0]: multiplicative returns it, additive returns
\* [0.5, 0.5], and power, shin and weighted raise ZeroDivisionError.
C22_ZeroPair ==
    (ZeroTotalCase /\ args[1] = <<Zero, Zero>>) =>
        CASE args[2] = "multiplicative" -> ret.err = "none" /\ ret.val.fair_probs = <<Zero, Zero>>
          [] args[2] = "additive" ->
                ret.err = "none" /\ ret.val.fair_probs = <<Rat(1, 2), Rat(1, 2)>>
          [] OTHER -> ret = DivisionByZero

(***************************************************************************)
(* Idempotence on fair vectors                                             *)
(***************************************************************************)
\* The case of C23: multiplicative or additive applied to a vector that sums to 1.
FairCase ==
    /\ fn = "devig"
    /\ pc = "done"
    /\ args[2] \in {"multiplicative", "additive"}
    /\ RSum(args[1]) = One

\* max(0.001, p) for every entry of probs.
Floored(probs) == [i \in 1..Len(probs) |-> RMax(Rat(1, 1000), probs[i])]

\* C23 as stated: multiplicative and additive return a vector that sums to 1
\* unchanged within floating tolerance, entries below 0.001 included.
C23_FairUnchanged ==
    FairCase =>
        /\ ret.err = "none"
        /\ Len(ret.val.fair_probs) = Len(args[1])
        /\ \A i \in 1..Len(args[1]) :
              Near(ret.val.fair_probs[i], args[1][i], Rat(1, 1000000))

\* C23 as amended: multiplicative returns a vector that sums to 1 unchanged;
\* additive returns it with every entry raised to at least 0.001 and divided by
\* the sum of the raised entries, which is the vector itself when no entry is
\* below 0.001.
C23_FairUnchangedAboveFloor ==
    FairCase =>
        /\ ret.err = "none"
        /\ ret.val.vig_removed = Zero
        /\ args[2] = "multiplicative" => ret.val.fair_probs = args[1]
        /\ args[2] = "additive" =>
              /\ Len(ret.val.fair_probs) = Len(args[1])
              /\ \A i \in 1..Len(args[1]) :
                    ret.val.fair_probs[i]
                        = RDiv(Floored(args[1])[i], RSum(Floored(args[1])))
              /\ (\A i \in 1..Len(args[1]) : RGe(args[1][i], Rat(1, 1000)))
                    => ret.val.fair_probs = args[1]

\* additive on [0.05, 0.4, 0.55] returns it, and on [0, 1] returns
\* [1/1001, 1000/1001].
C23_Witness ==
    /\ FairCase
    /\ args[2] = "additive"
    /\ \/ args[1] = <<Rat(1, 20), Rat(2, 5), Rat(11, 20)>> /\ ret.val.fair_probs = args[1]
       \/ args[1] = <<Zero, One>> /\ ret.val.fair_probs = <<Rat(1, 1001), Rat(1000, 1001)>>

(***************************************************************************)
(* The Shin method and its fall back to multiplicative                     *)
(***************************************************************************)
ShinCase == fn = "devig" /\ pc = "done" /\ args[2] = "shin"

\* z of a two-way market of total # 0, bounded to [0, 0.5].
ClampedZ(probs) ==
    Bind(RAdd(probs[1], probs[2]), LAMBDA total :
        IF total = One THEN Zero
        ELSE RMax(Zero, RMin(ShinZ(probs[1], probs[2], total,
                                   ShinDiscriminant(probs[1], probs[2], total)),
                             Rat(1, 2))))

\* The inputs C24 names: a length other than 2, or two outcomes with a total of
\* 1, a negative discriminant, or a bounded z of 0.
FallBackCase(probs) ==
    \/ Len(probs) # 2
    \/ /\ RAdd(probs[1], probs[2]) # Zero
       /\ \/ RAdd(probs[1], probs[2]) = One
          \/ RLt(ShinDiscriminant(probs[1], probs[2], RAdd(probs[1], probs[2])), Zero)
          \/ ClampedZ(probs) = Zero

\* C24: on those inputs shin_devig returns exactly what multiplicative_devig
\* returns; [0.5, 0.5] gives [0.5, 0.5].
C24_ShinFallsBack ==
    ShinCase =>
        /\ FallBackCase(args[1]) =>
              /\ ret.err = "none"
              /\ multiplicative_devig(args[1]).err = "none"
              /\ ret.val.fair_probs = multiplicative_devig(args[1]).val
        /\ args[1] = <<Rat(1, 2), Rat(1, 2)>> => ret.val.fair_probs = <<Rat(1, 2), Rat(1, 2)>>

C24_Witness ==
    /\ ShinCase
    /\ args[1] = <<Rat(1, 2), Rat(1, 2)>>
    /\ ClampedZ(args[1]) = Zero
    /\ ret.val.fair_probs = <<Rat(1, 2), Rat(1, 2)>>

\* A negative discriminant: [0.4, 0.4] gives the multiplicative [0.5, 0.5].
C24_NegativeDiscriminant ==
    /\ ShinCase
    /\ args[1] = <<Rat(2, 5), Rat(2, 5)>>
    /\ RLt(ShinDiscriminant(Rat(2, 5), Rat(2, 5), Rat(4, 5)), Zero)
    /\ ret.val.fair_probs = <<Rat(1, 2), Rat(1, 2)>>

\* The case of C27: shin applied to two positive implied probabilities of sum > 1.
ShinVigCase ==
    /\ ShinCase
    /\ Len(args[1]) = 2
    /\ AllPositive(args[1])
    /\ RGt(RSum(args[1]), One)

CorrelationFactor(correlation, n) ==
    RDiv(One, RAdd(One, RMul(correlation, RInt(n - 1))))

\* The result for the arguments of this call with another correlation and
\* number of bets.
ResultWith(correlation, n) ==
    kelly_with_correlation(args[1], args[2], args[3], correlation, n, args[6])

\* The case of C25: correlation in [0, 1], n >= 1.
CorrelationCase ==
    /\ CorrelationDone
    /\ RGe(args[4], Zero) /\ RLe(args[4], One)
    /\ args[5] >= 1

\* C25: kelly_with_correlation returns the result of kelly_criterion for the
\* fraction times 1 / (1 + correlation * (n - 1)); the recommended fraction and
\* stake do not grow with correlation nor with n; and with correlation 0 or n = 1
\* the result is that of kelly_criterion for the fraction itself.
C25_CorrelationShrinks ==
    CorrelationCase =>
        /\ ret = Return(kelly_criterion(args[1], args[2], args[3],
                                        RMul(args[6], CorrelationFactor(args[4], args[5])),
                                        Rat(5, 100)))
        /\ \A correlation \in {c \in Correlations : RGe(c, args[4]) /\ RLe(c, One)} :
              \A n \in args[5]..MaxCorrelated :
                 /\ RLe(ResultWith(correlation, n).val.recommended_fraction,
                        ret.val.recommended_fraction)
                 /\ RLe(ResultWith(correlation, n).val.recommended_stake,
                        ret.val.recommended_stake)
        /\ (args[4] = Zero \/ args[5] = 1) =>
              ret = Return(kelly_criterion(args[1], args[2], args[3], args[6], Rat(5, 100)))

\* p = 0.55 at decimal 2.0, bankroll 1000, quarter Kelly: full Kelly 0.1, 25.00
\* alone; with 3 bets of correlation 0.5 the fraction is 0.0125 and the stake 12.50.
C25_Witness ==
    /\ CorrelationCase
    /\ args = <<Rat(11, 20), RInt(2), RInt(1000), Rat(1, 2), 3, Rat(1, 4)>>
    /\ ret.val.recommended_fraction = Rat(1, 80)
    /\ ret.val.recommended_stake = Rat(1250, 100)
    /\ ResultWith(Zero, 3).val.recommended_stake = RInt(25)

(***************************************************************************)
(* The ledger: create_bet, quick_size and mark_bet_result, one call after  *)
(* another, starting without my_bets.json                                  *)
(***************************************************************************)
\* The (american_odds, win_prob) of the bets: +150 at 0.6, -110 at 0, and the
\* price 0.
LedgerInputs == {<<150, Rat(3, 5)>>, <<-110, Zero>>, <<0, Rat(3, 5)>>}

\* datetime.now().isoformat(); no operation reads created_at.
Timestamps == {"2025-01-01T12:00:00"}

\* The ledger holds at most MaxBets bets.
MaxBets == 2

InitLedger ==
    /\ pc = "ready"
    /\ fn = "none"
    /\ args = <<>>
    /\ ret = NoResult
    /\ bets_file = NoFile

CallCreateBet ==
    /\ Len(load_bets) < MaxBets
    /\ \E input \in LedgerInputs, now \in Timestamps :
          /\ fn' = "create_bet"
          /\ args' = <<"LAL @ BOS", "Lakers ML", input[1], input[2], RInt(1000), Rat(1, 4)>>
          /\ \E done \in {create_bet("LAL @ BOS", "Lakers ML", input[1], input[2],
                                     RInt(1000), Rat(1, 4), now)} :
                ret' = done.ret /\ bets_file' = done.file
    /\ pc' = "done"

CallQuickSize ==
    /\ \E input \in LedgerInputs :
          /\ fn' = "quick_size"
          /\ args' = <<input[1], input[2], RInt(1000), Rat(1, 4)>>
          /\ ret' = quick_size(input[1], input[2], RInt(1000), Rat(1, 4))
    /\ pc' = "done"
    /\ UNCHANGED bets_file

CallMarkBetResult ==
    /\ \E bet_id \in 1..MaxBets, outcome \in {<<TRUE, FALSE>>, <<FALSE, FALSE>>, <<FALSE, TRUE>>} :
          /\ fn' = "mark_bet_result"
          /\ args' = <<bet_id, outcome[1], outcome[2]>>
          /\ \E done \in {mark_bet_result(bet_id, outcome[1], outcome[2])} :
                ret' = done.ret /\ bets_file' = done.file
    /\ pc' = "done"

NextLedger == CallCreateBet \/ CallQuickSize \/ CallMarkBetResult

SpecLedger == InitLedger /\ [][NextLedger]_vars

CreateDone == fn = "create_bet" /\ pc = "done"
QuickDone == fn = "quick_size" /\ pc = "done"
MarkDone == fn = "mark_bet_result" /\ pc = "done"

\* C26: the ev_percent create_bet returns and stores, and the one quick_size
\* returns (rounded to 2 decimals), are calculate_ev of the win probability and
\* the decimal odds.
C26_LedgerEvIsCoreEv ==
    /\ (CreateDone /\ ret.err = "none") =>
          /\ ret.val.ev_percent
                = calculate_ev(args[4], american_to_decimal(args[3]).val)
          /\ load_bets[Len(load_bets)].ev_percent
                = calculate_ev(args[4], american_to_decimal(args[3]).val)
    /\ (QuickDone /\ ret.err = "none") =>
          ret.val.ev_percent
              = Round2(calculate_ev(args[2], american_to_decimal(args[1]).val))

\* What the ledger stores at a win probability of 0: -100, where calculate_ev
\* gives 0.
C26_ZeroProbability ==
    (CreateDone /\ ret.err = "none" /\ args[4] = Zero) =>
        /\ ret.val.ev_percent = RInt(-100)
        /\ calculate_ev(args[4], american_to_decimal(args[3]).val) = Zero

\* The ids of the ledger are 1 for the first bet and grow from each bet to the
\* next one created.
LedgerIds ==
    /\ Len(load_bets) > 0 => load_bets[1].id = 1
    /\ \A h, k \in 1..Len(load_bets) : h < k => load_bets[h].id < load_bets[k].id

\* A call of mark_bet_result keeps the number of bets and every id; a bet with
\* another id is kept as it is, and the bet with the id keeps all but status and
\* result_amount; when no bet has the id, None is returned and the file is left
\* as it is.
MarkKeeps ==
    fn' = "mark_bet_result" =>
        /\ Len(load_bets') = Len(load_bets)
        /\ \A k \in 1..Len(load_bets) :
              /\ load_bets'[k].id = load_bets[k].id
              /\ load_bets[k].id # args'[1] => load_bets'[k] = load_bets[k]
              /\ load_bets[k].id = args'[1] =>
                    /\ load_bets'[k] = [load_bets[k] EXCEPT
                                           !.status = load_bets'[k].status,
                                           !.result_amount = load_bets'[k].result_amount]
                    /\ load_bets'[k].status
                          = IF args'[3] THEN "void" ELSE IF args'[2] THEN "won" ELSE "lost"
                    /\ ret' = Return(<<load_bets'[k]>>)
        /\ (\A k \in 1..Len(load_bets) : load_bets[k].id # args'[1]) =>
              /\ ret' = Return(<<>>)
              /\ bets_file' = bets_file

\* A call of create_bet that returns a bet appends it, with an id above all
\* others, and keeps the bets there were.
CreateAppends ==
    (fn' = "create_bet" /\ ret'.err = "none") =>
        /\ load_bets' = Append(load_bets, ret'.val)
        /\ \A k \in 1..Len(load_bets) : load_bets[k].id < ret'.val.id

\* C30: from an empty ledger on, the ids of the bets are pairwise distinct and
\* grow in the order of creation from 1; mark_bet_result changes no id and not
\* the number of bets, only the status and result_amount of the bet with the given
\* id, and nothing when no bet has that id, returning None.
C30_LedgerIds == [](LedgerIds) /\ [][MarkKeeps /\ CreateAppends]_vars

\* Two bets, the second marked as won: 50.00 at +150 wins 75.00.
C30_Witness ==
    /\ MarkDone
    /\ args = <<2, TRUE, FALSE>>
    /\ Len(load_bets) = 2
    /\ load_bets[1].id = 1 /\ load_bets[1].status = "pending"
    /\ load_bets[2].id = 2 /\ load_bets[2].status = "won"
    /\ load_bets[2].result_amount = RInt(75)
    /\ ret = Return(<<load_bets[2]>>)

\* No bet has the id: None, and my_bets.json is still missing.
C30_NotFound ==
    /\ MarkDone
    /\ ret = Return(<<>>)
    /\ bets_file = NoFile

(***************************************************************************)
(* Total exposure of a batch sized for one bankroll                        *)
(***************************************************************************)
\* r is a result of kelly_criterion for the bankroll B with fraction >= 0 and
\* cap >= 0: its stake is its fraction of B, rounded.
SizedFor(r, B) ==
    /\ RGe(r.recommended_fraction, Zero)
    /\ r.recommended_stake = Round2(RMul(B, r.recommended_fraction))

\* The case of C28: scale_exposure applied with the bankroll its batch was sized
\* for.
ExposureCase ==
    /\ ScaleDone
    /\ RGe(args[2], Zero)
    /\ RGe(args[3], Zero)
    /\ \A i \in 1..Len(args[1]) : SizedFor(args[1][i], args[2])

\* Every returned stake is >= 0 and at most the stake it comes from.
StakesShrink ==
    /\ ret.err = "none"
    /\ Len(ret.val) = Len(args[1])
    /\ \A i \in 1..Len(args[1]) :
          /\ RGe(ret.val[i], Zero)
          /\ RLe(ret.val[i], args[1][i].recommended_stake)

\* The returned stakes sum to at most max_total_exposure * bankroll plus slack
\* per bet.
ExposureWithin(slack) ==
    RLe(RSum(ret.val), RAdd(RMul(args[3], args[2]), RMul(RInt(Len(args[1])), slack)))

\* C28 as stated: the returned stakes sum to at most max_total_exposure * B plus
\* half a cent per bet, and each is >= 0 and at most the original stake.
C28_ExposureWithinHalfCent ==
    ExposureCase => (StakesShrink /\ ExposureWithin(Rat(1, 200)))

\* C28 as amended: the returned stakes sum to at most max_total_exposure * B plus
\* one cent per bet (half a cent when nothing is scaled), each is >= 0 and at most
\* the original stake, and the call leaves its arguments as they are.
C28_ExposureWithinCent ==
    /\ [](ExposureCase =>
            /\ StakesShrink
            /\ ExposureWithin(Rat(1, 100))
            /\ RLe(TotalFraction(args[1]), args[3]) => ExposureWithin(Rat(1, 200)))
    /\ [][fn = "scale_exposure" => args' = args]_vars

\* One bet of fraction 0.05 for B = 1797.10, stake 89.86, against a cap of 0.04:
\* scaled to 71.89, which is 0.6 cent above 71.884.
C28_Witness ==
    /\ ExposureCase
    /\ args[2] = Rat(17971, 10)
    /\ args[3] = Rat(1, 25)
    /\ Len(args[1]) = 1
    /\ args[1][1].recommended_stake = Rat(8986, 100)
    /\ ret.val = <<Rat(7189, 100)>>

(***************************************************************************)
(* Sizing of the bets find_ev_bets returns                                 *)
(***************************************************************************)
\* C29: with min_ev > 0 and kelly_fraction > 0 every Bet find_ev_bets returns has
\* 0 < fair_prob < 1 and 0 < kelly_fraction <= 0.05.
C29_PositiveEvIsSized ==
    (FindDone /\ ret.err = "none" /\ RGt(args[3], Zero) /\ RGt(args[4], Zero)) =>
        \A j \in 1..Len(ret.val) :
           /\ RGt(ret.val[j].fair_prob, Zero)
           /\ RLt(ret.val[j].fair_prob, One)
           /\ RGt(ret.val[j].ev_percent, Zero)
           /\ RGt(ret.val[j].kelly_fraction, Zero)
           /\ RLe(ret.val[j].kelly_fraction, Rat(5, 100))

\* +120 against a fair 0.5 at full Kelly: 0.0833 of the bankroll, cut to 0.05.
C29_Witness ==
    /\ FindDone
    /\ ret.err = "none"
    /\ args[4] = One
    /\ Len(ret.val) = 1
    /\ ret.val[1].fair_prob = Rat(1, 2)
    /\ ret.val[1].ev_percent = RInt(10)
    /\ ret.val[1].kelly_fraction = Rat(5, 100)
    /\ ret.val[1].recommended_stake = RInt(50)

====
